---------------------------- MODULE Spec2Model ----------------------------
(***************************************************************************)
(* State-machine model of the SO-100 follower arm controller:              *)
(*   src/robot.py              class Robot (calibration, motion)           *)
(*   src/playback_waypoint.py  class WaypointPlayer (slice/reverse/loop)   *)
(*                                                                         *)
(* The servo bus is the environment: every register write or read gets a   *)
(* reply drawn nondeterministically ("ok", a transmission failure or a     *)
(* device-reported fault).  Every bus transaction, clamp warning and dwell *)
(* the program performs is appended to the variable trace, which is reset  *)
(* when a top-level call starts.                                           *)
(***************************************************************************)
EXTENDS Integers, Sequences, FiniteSets, TLC

(***************************************************************************)
(* Program constants (src/robot.py:55-86).                                 *)
(***************************************************************************)
ADDR_SCS_TORQUE_ENABLE == 40
ADDR_SCS_GOAL_ACC == 41
ADDR_SCS_GOAL_POSITION == 42
ADDR_SCS_GOAL_SPEED == 46
ADDR_SCS_PRESENT_POSITION == 56
ADDR_SCS_PRESENT_LOAD == 60
ADDR_SCS_PRESENT_VOLTAGE == 62
ADDR_SCS_PRESENT_TEMPERATURE == 63

CALIBRATION_SPEED == 500
CALIBRATION_ACC == 100
OVERLOAD_THRESHOLD == 3
POSITION_STEP == 10
MAX_POSITION == 4095
MIN_POSITION == -4095
CENTER == 2048

(***************************************************************************)
(* Bounds of the model.                                                    *)
(***************************************************************************)
\* number of entries of DEFAULT_SERVOS that are modelled (the source has 6)
NumServos == 2
\* calibration runs per session (main() starts at most one)
MaxCalRuns == 1
\* replies of the first ProbeWindow moves of a probe are free; later moves succeed
ProbeWindow == 5
\* an infinite playback (loop_count = 0) is followed for this many iterations
MaxLoops == 3
\* number of waypoints of the recording that is played back
NumWaypoints == 5

ServoNameTable ==
    <<"shoulder_pan", "shoulder_lift", "elbow_flex", "wrist_flex", "wrist_roll", "gripper">>

DEFAULT_SERVOS ==
    [n \in 1..NumServos |-> [name |-> ServoNameTable[n], id |-> n, drive_mode |-> 0]]

(***************************************************************************)
(* Python helpers.                                                         *)
(***************************************************************************)
Max(a, b) == IF a >= b THEN a ELSE b
Min(a, b) == IF a <= b THEN a ELSE b

Range(s) == {s[n] : n \in 1..Len(s)}

\* reversed copy of a list: s[::-1]
Reversed(s) == [n \in 1..Len(s) |-> s[Len(s) + 1 - n]]

\* s[lo:hi] for 0 <= lo, 0-based, hi exclusive (Python list slicing)
Slice(s, lo, hi) ==
    LET h == Min(hi, Len(s))
    IN  IF lo >= h THEN <<>> ELSE [n \in 1..(h - lo) |-> s[lo + n]]

\* sorted(S) for a finite set of integers
RECURSIVE SortedSeq(_)
SortedSeq(S) ==
    IF S = {} THEN <<>>
    ELSE LET m == CHOOSE x \in S : \A y \in S : x <= y
         IN  <<m>> \o SortedSeq(S \ {m})

(***************************************************************************)
(* A dict is a sequence of entries in insertion order, each with its key   *)
(* in field id.  d[key] = rec keeps the position of an existing key.       *)
(***************************************************************************)
Keys(d) == [n \in 1..Len(d) |-> d[n].id]
KeySet(d) == {d[n].id : n \in 1..Len(d)}
Get(d, key) == d[CHOOSE n \in 1..Len(d) : d[n].id = key]
DictSet(d, rec) ==
    IF rec.id \in KeySet(d)
    THEN [n \in 1..Len(d) |-> IF d[n].id = rec.id THEN rec ELSE d[n]]
    ELSE Append(d, rec)


(***************************************************************************)
(* State.                                                                  *)
(***************************************************************************)
VARIABLES
    calfile,        \* CALIBRATION_FILE on disk: [exists, entries]
    calibration,    \* Robot.calibration: dict servo id -> entry, insertion-ordered
    servo_names,    \* Robot.servo_names: dict servo id -> name
    is_connected,   \* Robot.is_connected
    port,           \* port_handler/packet_handler: "none", "unopened", "open", "closed"
    mv,             \* frame of Robot.move_to_position
    ex,             \* frame of Robot.execute_waypoints
    cl,             \* frame of Robot.auto_calibrate / manual_calibrate
    player,         \* WaypointPlayer: loaded waypoints and the playback frame
    recorder,       \* WaypointRecorder: recorded waypoints and the recording frame
    trace,          \* bus transactions, warnings and dwells of the current top-level call
    last,           \* name and return value of the current or last top-level call
    cal_runs        \* number of calibration runs started in this session

vars == <<calfile, calibration, servo_names, is_connected, port, mv, ex, cl, player,
          recorder, trace, last, cal_runs>>

robotVars == <<calfile, calibration, servo_names, is_connected, port, cal_runs>>

(***************************************************************************)
(* Trace entries.  kind is "write" or "read" (a bus transaction, with the  *)
(* register address, the value written and the reply of the bus),          *)
(* "warn" (a clamp warning), "sleep" (the dwell at a waypoint) or "pause"  *)
(* (the delay between two playback loops).  wp is the 1-based index of the *)
(* waypoint being executed, 0 outside execute_waypoints.                   *)
(***************************************************************************)
CurWp == IF ex.pc = "idle" THEN 0 ELSE ex.i

Write(id, addr, val, reply) ==
    [kind |-> "write", id |-> id, addr |-> addr, val |-> val, reply |-> reply, wp |-> CurWp]
Read(id, addr, reply) ==
    [kind |-> "read", id |-> id, addr |-> addr, val |-> 0, reply |-> reply, wp |-> CurWp]
Warn(id, target, safe) ==
    [kind |-> "warn", id |-> id, addr |-> target, val |-> safe, reply |-> "ok", wp |-> CurWp]
Dwell(kind, secs) ==
    [kind |-> kind, id |-> 0, addr |-> 0, val |-> secs, reply |-> "ok", wp |-> CurWp]

IsBus(e) == e.kind \in {"write", "read"}
BusOps(t) == SelectSeq(t, IsBus)

\* replies of the bus to one transaction
Replies == {"ok", "txfail", "fault"}

\* recorded for the reply to a transaction whose result the program does not
\* use (at most it selects a message)
Unused == "unused"

\* the packet handler can transmit only through an open port; otherwise the
\* SDK call raises and the except clause of the caller runs
BusUp == port = "open"

(***************************************************************************)
(* Frames.                                                                 *)
(***************************************************************************)
\* the arguments of a call that takes none
NoArgs == [none |-> TRUE]

MvIdle == [pc |-> "idle", positions |-> <<>>, speed |-> 0, acceleration |-> 0,
           k |-> 0, success |-> TRUE, caller |-> "api"]
\* read_failed: a read-back of this call printed "Error reading position"
ExIdle == [pc |-> "idle", waypoints |-> <<>>, speed |-> 0, acceleration |-> 0,
           wait_time |-> 0, i |-> 0, k |-> 0, read_failed |-> FALSE, caller |-> "api"]
\* an Optional[int]: None, or Some(v)
None == [some |-> FALSE, v |-> 0]
Some(v) == [some |-> TRUE, v |-> v]

\* last_ok: the position of the latest successful move of the running probe;
\* fails: the number of failed moves of the running probe; samples: per joint,
\* the positions read so far in the monitoring loop of manual_calibrate
ClIdle == [pc |-> "idle", j |-> 0, start_position |-> 0, pos |-> 0, overload_count |-> 0,
           min_position |-> None, max_position |-> None, last_ok |-> None, fails |-> 0,
           ranges |-> <<>>, polls |-> 0, samples |-> <<>>]
\* frame of WaypointPlayer.playback_waypoints; args are its arguments and calls
\* logs the arguments of each execute_waypoints call it made
PbIdle == [pc |-> "idle", args |-> NoArgs, waypoints_to_play |-> <<>>,
           current_loop |-> 0, calls |-> <<>>]
PlayerInit == [waypoints |-> <<>>, pb |-> PbIdle]

\* WaypointRecorder.__init__, and the locals of record_waypoint: pc is "idle",
\* "display" (top of the loop) or "input" (waiting for a command); file is the
\* waypoint file written by save_waypoints.  Timestamps are left out.
\* issued: the ids given to waypoints since the recorder was constructed
RecorderInit ==
    [pc |-> "idle", waypoints |-> <<>>, waypoint_file |-> None, waypoint_count |-> 0,
     current_positions |-> <<>>, issued |-> {},
     file |-> [exists |-> FALSE, waypoints |-> <<>>]]

Idle ==
    /\ mv.pc = "idle" /\ ex.pc = "idle" /\ cl.pc = "idle" /\ player.pb.pc = "idle"
    /\ recorder.pc = "idle"

\* last while a top-level call runs, and after it returned ret; args holds the
\* arguments of the call (the list returned, for get_current_positions);
\* cancelled tells that a KeyboardInterrupt ended it; asked tells that the call
\* put its confirmation prompt, and response is the answer after
\* strip().lower()
Running(op, args) ==
    [op |-> op, done |-> FALSE, ret |-> FALSE, args |-> args, cancelled |-> FALSE,
     asked |-> FALSE, response |-> ""]
Returned(op, ret, args) ==
    [op |-> op, done |-> TRUE, ret |-> ret, args |-> args, cancelled |-> FALSE,
     asked |-> FALSE, response |-> ""]

\* the answers to a confirmation prompt: yes, no, ENTER alone
Responses == {"y", "n", ""}

\* variant of Confirmed that takes everything but a no for consent
Confirmed_unless_no(response) == response # "n"

\* the negation of: if response != 'y'
Confirmed(response) == response = "y"

(***************************************************************************)
(* Calibration file: load_calibration / save_calibration.                  *)
(***************************************************************************)
NoFile == [exists |-> FALSE, entries |-> <<>>]

\* variant of LoadedEntry that does not recompute range_size
LoadedEntry_size_unset(data) ==
    [name |-> data.name, id |-> data.id, drive_mode |-> data.drive_mode,
     homing_offset |-> data.homing_offset,
     range_min |-> data.range_min, range_max |-> data.range_max,
     range_size |-> 0]

\* the entry load_calibration builds from one item of the JSON object
LoadedEntry(data) ==
    [name |-> data.name, id |-> data.id, drive_mode |-> data.drive_mode,
     homing_offset |-> data.homing_offset,
     range_min |-> data.range_min, range_max |-> data.range_max,
     range_size |-> data.range_max - data.range_min]

RECURSIVE LoadEntries(_, _)
LoadEntries(entries, acc) ==
    IF entries = <<>> THEN acc
    ELSE LoadEntries(Tail(entries), DictSet(acc, LoadedEntry(Head(entries))))

\* an item of the JSON object that has every key load_calibration reads
Complete(data) ==
    {"id", "drive_mode", "homing_offset", "range_min", "range_max"} \subseteq DOMAIN data

\* the entries stored when the loop of load_calibration ends or raises
\* KeyError at the first item with a missing key
RECURSIVE LoadPrefix(_, _)
LoadPrefix(entries, acc) ==
    IF entries = <<>> \/ ~Complete(Head(entries)) THEN acc
    ELSE LoadPrefix(Tail(entries), DictSet(acc, LoadedEntry(Head(entries))))

\* a file that json.load cannot parse has the field garbled
Garbled(file) == "garbled" \in DOMAIN file

NameOf(cal) == [id |-> cal.id, name |-> cal.name]
Names(cal) == [n \in 1..Len(cal) |-> NameOf(cal[n])]

\* variant of SavedEntry that writes the default drive mode
SavedEntry_default_drive_mode(cal) ==
    [name |-> cal.name, id |-> cal.id, drive_mode |-> 0,
     homing_offset |-> cal.homing_offset,
     range_min |-> cal.range_min, range_max |-> cal.range_max]

\* the item save_calibration writes for one entry (range_size is not written)
SavedEntry(cal) ==
    [name |-> cal.name, id |-> cal.id, drive_mode |-> cal.drive_mode,
     homing_offset |-> cal.homing_offset,
     range_min |-> cal.range_min, range_max |-> cal.range_max]

\* cal_data[name] = item: a JSON object is keyed by the joint name
NameSet(d, item) ==
    IF \E n \in 1..Len(d) : d[n].name = item.name
    THEN [n \in 1..Len(d) |-> IF d[n].name = item.name THEN item ELSE d[n]]
    ELSE Append(d, item)

RECURSIVE SaveEntries(_, _)
SaveEntries(cal, acc) ==
    IF cal = <<>> THEN acc
    ELSE SaveEntries(Tail(cal), NameSet(acc, SavedEntry(Head(cal))))

has_calibration == Len(calibration) > 0 /\ calfile.exists

load_calibration ==
    /\ Idle
    /\ IF ~calfile.exists \/ Garbled(calfile)
       THEN /\ last' = Returned("load_calibration", FALSE, NoArgs)
            /\ UNCHANGED <<calibration, servo_names, recorder>>
       ELSE /\ calibration' = LoadPrefix(calfile.entries, <<>>)
            /\ servo_names' = Names(calibration')
            /\ last' = Returned("load_calibration",
                                \A n \in 1..Len(calfile.entries) :
                                    Complete(calfile.entries[n]),
                                NoArgs)
    /\ trace' = <<>>
    /\ UNCHANGED <<calfile, is_connected, port, mv, ex, cl, player, cal_runs, recorder>>

\* the effect of save_calibration on the file; the write can fail (open raises)
SaveTo(ok) ==
    IF ok THEN [exists |-> TRUE, entries |-> SaveEntries(calibration, <<>>)]
    ELSE calfile

save_calibration ==
    /\ Idle
    /\ \E ok \in BOOLEAN :
          /\ calfile' = SaveTo(ok)
          /\ last' = Returned("save_calibration", ok, NoArgs)
    /\ trace' = <<>>
    /\ UNCHANGED <<calibration, servo_names, is_connected, port, mv, ex, cl, player, cal_runs, recorder>>

(***************************************************************************)
(* connect / disconnect.                                                   *)
(***************************************************************************)
connect ==
    /\ Idle
    /\ \E outcome \in {"ok", "open_fail", "baud_fail"} :
          CASE outcome = "ok" ->
                  /\ port' = "open"
                  /\ is_connected' = TRUE
                  /\ last' = Returned("connect", TRUE, NoArgs)
            [] outcome = "open_fail" ->
                  /\ port' = "unopened"
                  /\ UNCHANGED is_connected
                  /\ last' = Returned("connect", FALSE, NoArgs)
            [] outcome = "baud_fail" ->
                  \* openPort succeeded; whether setBaudRate leaves the port
                  \* open is up to the SDK
                  /\ port' \in {"open", "closed"}
                  /\ UNCHANGED is_connected
                  /\ last' = Returned("connect", FALSE, NoArgs)
    /\ trace' = <<>>
    /\ UNCHANGED <<calfile, calibration, servo_names, mv, ex, cl, player, cal_runs, recorder>>

\* the torque-disable writes of disconnect, manual_calibrate and
\* record_waypoint, one per entry of DEFAULT_SERVOS
TorqueOff ==
    [n \in 1..NumServos |-> Write(DEFAULT_SERVOS[n].id, ADDR_SCS_TORQUE_ENABLE, 0, Unused)]

disconnect ==
    /\ Idle
    /\ IF is_connected /\ port # "none"
       THEN /\ trace' = IF BusUp THEN TorqueOff ELSE <<>>
            /\ port' = "closed"
            /\ is_connected' = FALSE
       ELSE /\ trace' = <<>>
            /\ UNCHANGED <<port, is_connected, recorder>>
    /\ last' = Returned("disconnect", TRUE, NoArgs)
    /\ UNCHANGED <<calfile, calibration, servo_names, mv, ex, cl, player, cal_runs, recorder>>


(***************************************************************************)
(* setup_servo, move_servo, get_servo_status: the bus transactions of one  *)
(* call, given the replies.                                                *)
(***************************************************************************)
\* setup_servo(servo_id, speed, acceleration): the writes it issues when the
\* replies are rs (acceleration, speed, torque enable); it returns at the
\* first reply that is not clean
SetupWrites(servo_id, speed, acceleration, rs) ==
    LET w1 == Write(servo_id, ADDR_SCS_GOAL_ACC, acceleration, rs[1])
        w2 == Write(servo_id, ADDR_SCS_GOAL_SPEED, speed, rs[2])
        w3 == Write(servo_id, ADDR_SCS_TORQUE_ENABLE, 1, rs[3])
    IN  IF rs[1] # "ok" THEN <<w1>>
        ELSE IF rs[2] # "ok" THEN <<w1, w2>>
        ELSE <<w1, w2, w3>>

\* variant of SetupOk that does not test the torque write
SetupOk_ignores_torque(rs) == rs[1] = "ok" /\ rs[2] = "ok"

SetupOk(rs) == rs[1] = "ok" /\ rs[2] = "ok" /\ rs[3] = "ok"

\* reply vectors of one setup_servo call: nothing is written after a failure
SetupReplies ==
    {rs \in [1..3 -> Replies] : \A n \in 1..2 : rs[n] # "ok" => rs[n + 1] = "ok"}

\* variant of MoveOk that overlooks a device-reported fault
MoveOk_fault_passes(reply) == reply # "txfail"

\* move_servo(servo_id, position) returns True only on a clean reply
MoveOk(reply) == reply = "ok"

\* get_servo_status(servo_id): the four reads it issues; r is the reply to the
\* position read, the only one whose result a caller in the core uses
StatusReads(servo_id, r) ==
    <<Read(servo_id, ADDR_SCS_PRESENT_POSITION, r),
      Read(servo_id, ADDR_SCS_PRESENT_LOAD, "ok"),
      Read(servo_id, ADDR_SCS_PRESENT_VOLTAGE, "ok"),
      Read(servo_id, ADDR_SCS_PRESENT_TEMPERATURE, "ok")>>

(***************************************************************************)
(* Return paths.  A call that returns hands its result to its caller in    *)
(* the same step.                                                          *)
(***************************************************************************)
\* variant of AfterExec in which the playback loop goes on after a failed
\* iteration
AfterExec_loop_on(caller, ok) ==
    /\ ex' = ExIdle
    /\ IF caller = "api"
       THEN /\ last' = [last EXCEPT !.done = TRUE, !.ret = ok]
            /\ UNCHANGED player
       ELSE /\ player' = [player EXCEPT !.pb.pc = "looped"]
            /\ UNCHANGED last

\* execute_waypoints returns ok to caller
AfterExec(caller, ok) ==
    /\ ex' = ExIdle
    /\ IF caller = "api"
       THEN /\ last' = [last EXCEPT !.done = TRUE, !.ret = ok]
            /\ UNCHANGED player
       ELSE IF ok
       THEN /\ player' = [player EXCEPT !.pb.pc = "looped"]
            /\ UNCHANGED last
       ELSE /\ player' = [player EXCEPT !.pb = PbIdle]
            /\ last' = [last EXCEPT !.done = TRUE, !.ret = FALSE]

\* variant of AfterMove in which execute_waypoints goes on after a failed move
AfterMove_no_abort(caller, ok) ==
    /\ mv' = MvIdle
    /\ IF caller = "api"
       THEN /\ last' = [last EXCEPT !.done = TRUE, !.ret = ok]
            /\ UNCHANGED <<ex, player, recorder>>
       ELSE /\ ex' = [ex EXCEPT !.pc = "wait"]
            /\ UNCHANGED <<player, last, recorder>>

\* move_to_position returns ok to caller
AfterMove(caller, ok) ==
    /\ mv' = MvIdle
    /\ IF caller = "api"
       THEN /\ last' = [last EXCEPT !.done = TRUE, !.ret = ok]
            /\ UNCHANGED <<ex, player, recorder>>
       ELSE IF ok
       THEN /\ ex' = [ex EXCEPT !.pc = "wait"]
            /\ UNCHANGED <<player, last, recorder>>
       ELSE AfterExec(ex.caller, FALSE)

(***************************************************************************)
(* move_to_position.                                                       *)
(***************************************************************************)
\* variant of MoveValid without the length check
MoveValid_any_length(positions) == has_calibration

\* the validation at the head of move_to_position
MoveValid(positions) == has_calibration /\ Len(positions) = Len(calibration)

\* entry of move_to_position(positions, speed, acceleration)
EnterMove(caller, positions, speed, acceleration) ==
    IF MoveValid(positions)
    THEN /\ mv' = [pc |-> "setup", positions |-> positions, speed |-> speed,
                   acceleration |-> acceleration, k |-> 1, success |-> TRUE,
                   caller |-> caller]
         /\ UNCHANGED <<ex, player, last, recorder>>
    ELSE AfterMove(caller, FALSE)

\* the order of the setup loop: for servo_id in self.calibration.keys()
SetupOrder == Keys(calibration)

\* the order of the position loop: enumerate(sorted(self.calibration.keys()))
WriteOrder_unsorted == Keys(calibration)

WriteOrder == SortedSeq(KeySet(calibration))

\* one iteration of the setup loop
move_setup ==
    /\ mv.pc = "setup"
    /\ LET servo_id == SetupOrder[mv.k]
       IN  \E rs \in SetupReplies :
              /\ trace' = IF BusUp
                          THEN trace \o SetupWrites(servo_id, mv.speed, mv.acceleration, rs)
                          ELSE trace
              /\ IF BusUp /\ SetupOk(rs)
                 THEN /\ mv' = IF mv.k < Len(SetupOrder)
                               THEN [mv EXCEPT !.k = mv.k + 1]
                               ELSE [mv EXCEPT !.pc = "write", !.k = 1]
                      /\ UNCHANGED <<ex, player, last, recorder>>
                 ELSE AfterMove(mv.caller, FALSE)
    /\ UNCHANGED <<robotVars, cl, recorder>>

\* safe_pos = max(cal['range_min'], min(cal['range_max'], target_pos))
Clamp(cal, target_pos) == Max(cal.range_min, Min(cal.range_max, target_pos))

\* one iteration of the position loop
move_write ==
    /\ mv.pc = "write"
    /\ LET servo_id == WriteOrder[mv.k]
           cal == Get(calibration, servo_id)
           target_pos == mv.positions[mv.k]
           safe_pos == Clamp(cal, target_pos)
           warning == IF safe_pos # target_pos
                      THEN <<Warn(servo_id, target_pos, safe_pos)>> ELSE <<>>
       IN  \E r \in Replies :
              LET sent == IF BusUp
                          THEN <<Write(servo_id, ADDR_SCS_GOAL_POSITION, safe_pos, r)>>
                          ELSE <<>>
                  success == mv.success /\ BusUp /\ MoveOk(r)
              IN  /\ trace' = trace \o warning \o sent
                  /\ IF mv.k < Len(WriteOrder)
                     THEN /\ mv' = [mv EXCEPT !.k = mv.k + 1, !.success = success]
                          /\ UNCHANGED <<ex, player, last, recorder>>
                     ELSE AfterMove(mv.caller, success)
    /\ UNCHANGED <<robotVars, cl, recorder>>

\* arguments of the top-level calls of move_to_position
TargetValues == <<500, 2048, 3500>>
Uniform(len, v) == [n \in 1..len |-> v]
Mixed(len) == [n \in 1..len |-> TargetValues[((n - 1) % 3) + 1]]
\* the last list holds a target above MAX_POSITION
TargetLists ==
    {Uniform(NumServos, TargetValues[n]) : n \in 1..3}
        \cup {Mixed(NumServos), Reversed(Mixed(NumServos)),
              Mixed(NumServos - 1), Mixed(NumServos + 1)}
        \cup {Uniform(NumServos, 4100)}

call_move_to_position ==
    /\ Idle
    /\ trace' = <<>>
    /\ \E positions \in TargetLists :
          LET args == [positions |-> positions, speed |-> 100, acceleration |-> 50]
          IN  IF MoveValid(positions)
              THEN /\ mv' = [pc |-> "setup", positions |-> positions, speed |-> args.speed,
                             acceleration |-> args.acceleration, k |-> 1,
                             success |-> TRUE, caller |-> "api"]
                   /\ last' = Running("move_to_position", args)
              ELSE /\ last' = Returned("move_to_position", FALSE, args)
                   /\ UNCHANGED mv
    /\ UNCHANGED <<robotVars, ex, cl, player, recorder>>

(***************************************************************************)
(* execute_waypoints.                                                      *)
(***************************************************************************)
\* the frame of execute_waypoints(waypoints, speed, acceleration, wait_time)
\* at the head of its loop over a non-empty list
ExecFrame(caller, waypoints, speed, acceleration, wait_time) ==
    [pc |-> "move", waypoints |-> waypoints, speed |-> speed,
     acceleration |-> acceleration, wait_time |-> wait_time,
     i |-> 1, k |-> 0, read_failed |-> FALSE, caller |-> caller]

\* the loop body calls move_to_position(waypoint, speed, acceleration)
exec_move ==
    /\ ex.pc = "move"
    /\ mv.pc = "idle"
    /\ EnterMove("exec", ex.waypoints[ex.i], ex.speed, ex.acceleration)
    /\ UNCHANGED <<robotVars, cl, trace, recorder>>

\* time.sleep(wait_time)
exec_wait ==
    /\ ex.pc = "wait"
    /\ trace' = Append(trace, Dwell("sleep", ex.wait_time))
    /\ ex' = [ex EXCEPT !.pc = "read", !.k = 1]
    /\ UNCHANGED <<robotVars, mv, cl, player, last, recorder>>

\* the read-back of one joint: for servo_id in sorted(self.calibration.keys())
exec_read ==
    /\ ex.pc = "read"
    /\ LET servo_id == WriteOrder[ex.k]
       IN  \E r \in Replies :
              LET failed == ex.read_failed \/ ~BusUp \/ r # "ok"
              IN  /\ trace' = IF BusUp
                              THEN trace \o StatusReads(servo_id, Unused) ELSE trace
                  /\ IF ex.k < Len(WriteOrder)
                     THEN /\ ex' = [ex EXCEPT !.k = ex.k + 1, !.read_failed = failed]
                          /\ UNCHANGED <<player, last, recorder>>
                     ELSE IF ex.i < Len(ex.waypoints)
                     THEN /\ ex' = [ex EXCEPT !.pc = "move", !.i = ex.i + 1, !.k = 0,
                                              !.read_failed = failed]
                          /\ UNCHANGED <<player, last, recorder>>
                     ELSE AfterExec(ex.caller, TRUE)
    /\ UNCHANGED <<robotVars, mv, cl, recorder>>

\* arguments of the top-level calls of execute_waypoints
WaypointLists ==
    {<<>>,
     <<Mixed(NumServos)>>,
     <<Uniform(NumServos, 3500), Mixed(NumServos), Uniform(NumServos, 500)>>,
     <<Mixed(NumServos), Mixed(NumServos - 1), Uniform(NumServos, 2048)>>}

\* variant of call_execute_waypoints without the test of the empty list: the
\* loop runs no iteration and the call returns True
call_execute_waypoints_empty_passes ==
    /\ Idle
    /\ trace' = <<>>
    /\ \E waypoints \in WaypointLists :
          LET args == [waypoints |-> waypoints, speed |-> 100, acceleration |-> 50,
                       wait_time |-> 2]
          IN  IF waypoints = <<>>
              THEN /\ last' = Returned("execute_waypoints", TRUE, args)
                   /\ UNCHANGED ex
              ELSE /\ ex' = ExecFrame("api", waypoints, args.speed, args.acceleration,
                                      args.wait_time)
                   /\ last' = Running("execute_waypoints", args)
    /\ UNCHANGED <<robotVars, mv, cl, player, recorder>>

call_execute_waypoints ==
    /\ Idle
    /\ trace' = <<>>
    /\ \E waypoints \in WaypointLists :
          LET args == [waypoints |-> waypoints, speed |-> 100, acceleration |-> 50,
                       wait_time |-> 2]
          IN  IF waypoints = <<>>
              THEN /\ last' = Returned("execute_waypoints", FALSE, args)
                   /\ UNCHANGED ex
              ELSE /\ ex' = ExecFrame("api", waypoints, args.speed, args.acceleration,
                                      args.wait_time)
                   /\ last' = Running("execute_waypoints", args)
    /\ UNCHANGED <<robotVars, mv, cl, player, recorder>>

(***************************************************************************)
(* Automatic calibration: auto_calibrate and detect_joint_limits.          *)
(***************************************************************************)
\* positions the servos report (SCS_LOWORD of the reply, a 16-bit value)
PosSamples == {520, 4110}

\* the moves of one probe are folded into one trace entry of kind "probe"
\* that holds the latest commanded position and its reply
Probe(id, val, reply) ==
    [kind |-> "probe", id |-> id, addr |-> ADDR_SCS_GOAL_POSITION, val |-> val,
     reply |-> reply, wp |-> 0]

LogProbe(t, first, e) == IF first THEN Append(t, e) ELSE [t EXCEPT ![Len(t)] = e]

\* reply of the bus to the n-th move (0-based) of a probe: clean, or an
\* overload fault while the joint is within ProbeWindow moves of its start
ProbeReplies(n) == IF n < ProbeWindow THEN {"ok", "fault"} ELSE {"ok"}

\* variant of AutoEntry whose division rounds towards zero
AutoEntry_truncating(servo, min_pos, max_pos) ==
    [name |-> servo.name, id |-> servo.id, drive_mode |-> servo.drive_mode,
     homing_offset |-> (IF min_pos + max_pos >= 0
                        THEN (min_pos + max_pos) \div 2
                        ELSE -((-(min_pos + max_pos)) \div 2)) - CENTER,
     range_min |-> min_pos, range_max |-> max_pos,
     range_size |-> max_pos - min_pos]

\* the entry auto_calibrate stores for a joint with limits min_pos, max_pos
AutoEntry(servo, min_pos, max_pos) ==
    [name |-> servo.name, id |-> servo.id, drive_mode |-> servo.drive_mode,
     homing_offset |-> ((min_pos + max_pos) \div 2) - CENTER,
     range_min |-> min_pos, range_max |-> max_pos,
     range_size |-> max_pos - min_pos]

\* variant of FinishCalibration that saves whatever was built
FinishCalibration_saves_empty(op, cal) ==
    \E ok \in BOOLEAN :
        /\ calfile' = IF ok THEN [exists |-> TRUE, entries |-> SaveEntries(cal, <<>>)]
                      ELSE calfile
        /\ last' = Returned(op, ok, NoArgs)

\* the tail of auto_calibrate / manual_calibrate: save when something was
\* calibrated, with cal the calibration built by the call
FinishCalibration(op, cal) ==
    IF Len(cal) > 0
    THEN \E ok \in BOOLEAN :
            /\ calfile' = IF ok THEN [exists |-> TRUE, entries |-> SaveEntries(cal, <<>>)]
                          ELSE calfile
            /\ last' = Returned(op, ok, NoArgs)
    ELSE /\ last' = Returned(op, FALSE, NoArgs)
         /\ UNCHANGED calfile

call_auto_calibrate ==
    /\ Idle
    /\ ~has_calibration
    /\ cal_runs < MaxCalRuns
    /\ trace' = <<>>
    /\ IF ~is_connected
       THEN /\ last' = Returned("auto_calibrate", FALSE, NoArgs)
            /\ UNCHANGED <<calibration, servo_names, cl, cal_runs, recorder>>
       ELSE \E response \in Responses :
               IF ~Confirmed(response)
               THEN /\ last' = [Returned("auto_calibrate", FALSE, NoArgs)
                                   EXCEPT !.asked = TRUE, !.response = response]
                    /\ UNCHANGED <<calibration, servo_names, cl, cal_runs, recorder>>
               ELSE /\ calibration' = <<>>
                    /\ servo_names' = <<>>
                    /\ cl' = [ClIdle EXCEPT !.pc = "detect", !.j = 1]
                    /\ last' = [Running("auto_calibrate", NoArgs)
                                   EXCEPT !.asked = TRUE, !.response = response]
                    /\ cal_runs' = cal_runs + 1
    /\ UNCHANGED <<calfile, is_connected, port, mv, ex, player, recorder>>

\* variant of AutoNext in which the first joint that fails ends the run
AutoNext_stop_at_failure(cal) ==
    /\ calibration' = cal
    /\ servo_names' = Names(cal)
    /\ IF cl.j < NumServos /\ cal # calibration
       THEN /\ cl' = [ClIdle EXCEPT !.pc = "detect", !.j = cl.j + 1]
            /\ UNCHANGED <<calfile, last, recorder>>
       ELSE /\ cl' = ClIdle
            /\ FinishCalibration("auto_calibrate", cal)

\* variant of AutoNext that takes the same joint again
AutoNext_repeats_joint(cal) ==
    /\ calibration' = cal
    /\ servo_names' = Names(cal)
    /\ IF cl.j < NumServos
       THEN /\ cl' = [ClIdle EXCEPT !.pc = "detect", !.j = cl.j]
            /\ UNCHANGED <<calfile, last, recorder>>
       ELSE /\ cl' = ClIdle
            /\ FinishCalibration("auto_calibrate", cal)

\* auto_calibrate after detect_joint_limits returned for joint cl.j: cal is
\* the calibration with that joint's entry stored (or not)
AutoNext(cal) ==
    /\ calibration' = cal
    /\ servo_names' = Names(cal)
    /\ IF cl.j < NumServos
       THEN /\ cl' = [ClIdle EXCEPT !.pc = "detect", !.j = cl.j + 1]
            /\ UNCHANGED <<calfile, last, recorder>>
       ELSE /\ cl' = ClIdle
            /\ FinishCalibration("auto_calibrate", cal)

\* head of detect_joint_limits: setup_servo, then the start position; the
\* trace of a calibration run starts afresh with each joint
auto_detect ==
    /\ cl.pc = "detect"
    /\ LET servo_id == DEFAULT_SERVOS[cl.j].id
       IN  \E rs \in SetupReplies, r \in Replies, p \in PosSamples :
              LET setup == SetupWrites(servo_id, CALIBRATION_SPEED, CALIBRATION_ACC, rs)
              IN  IF ~BusUp
                  THEN /\ trace' = <<>>
                       /\ AutoNext(calibration)
                  ELSE IF ~SetupOk(rs)
                  THEN /\ trace' = setup
                       /\ AutoNext(calibration)
                  ELSE IF r # "ok"
                  THEN /\ trace' = setup \o StatusReads(servo_id, r)
                       /\ AutoNext(calibration)
                  ELSE /\ trace' = setup \o StatusReads(servo_id, r)
                       /\ cl' = [cl EXCEPT !.pc = "down", !.start_position = p, !.pos = p,
                                           !.overload_count = 0, !.min_position = Some(p),
                                          !.last_ok = None]
                       /\ UNCHANGED <<calfile, calibration, servo_names, last, recorder>>
    /\ UNCHANGED <<is_connected, port, mv, ex, player, cal_runs, recorder>>

\* variant of CountAfter in which a successful move leaves the counter
CountAfter_no_reset(ok, overload_count) ==
    IF ok THEN overload_count ELSE overload_count + 1

\* overload_count after a move: overload_count += 1, or overload_count = 0
CountAfter(ok, overload_count) == IF ok THEN 0 ELSE overload_count + 1

\* variant of LowerBoundary that takes the failing position itself
LowerBoundary_at_failure(pos) == pos

\* min_position = pos + POSITION_STEP, max_position = pos - POSITION_STEP
LowerBoundary(pos) == pos + POSITION_STEP
UpperBoundary(pos) == pos - POSITION_STEP

\* the last value of range(start, MIN_POSITION - 1, -POSITION_STEP) and of
\* range(start, MAX_POSITION + 1, POSITION_STEP)
LastDown(start) == start - POSITION_STEP * ((start - MIN_POSITION) \div POSITION_STEP)
LastUp(start) == start + POSITION_STEP * ((MAX_POSITION - start) \div POSITION_STEP)

\* one iteration of: for pos in range(start_position, MIN_POSITION - 1, -POSITION_STEP).
\* The iterations past the ProbeWindow, whose moves all succeed, are taken
\* in the same step as the last iteration inside it.
auto_down ==
    /\ cl.pc = "down"
    /\ LET servo_id == DEFAULT_SERVOS[cl.j].id
           n == (cl.start_position - cl.pos) \div POSITION_STEP
       IN  \E r \in ProbeReplies(n) :
              LET count == CountAfter(MoveOk(r), cl.overload_count)
                  failed == IF MoveOk(r) THEN cl.fails ELSE cl.fails + 1
                  next == cl.pos - POSITION_STEP
                  last_pos == LastDown(cl.start_position)
                  ok_pos == IF MoveOk(r) THEN Some(cl.pos) ELSE cl.last_ok
              IN  IF count >= OVERLOAD_THRESHOLD
                  THEN /\ trace' = LogProbe(trace, n = 0, Probe(servo_id, cl.pos, r))
                       /\ cl' = [cl EXCEPT !.pc = "back", !.overload_count = count,
                                           !.last_ok = ok_pos, !.fails = failed,
                                           !.min_position = Some(LowerBoundary(cl.pos))]
                  ELSE IF next > MIN_POSITION - 1 /\ n + 1 < ProbeWindow
                  THEN /\ trace' = LogProbe(trace, n = 0, Probe(servo_id, cl.pos, r))
                       /\ cl' = [cl EXCEPT !.pos = next, !.overload_count = count,
                                           !.last_ok = ok_pos, !.fails = failed]
                  ELSE IF next > MIN_POSITION - 1
                  THEN /\ trace' = LogProbe(trace, n = 0, Probe(servo_id, last_pos, "ok"))
                       /\ cl' = [cl EXCEPT !.pc = "back", !.pos = last_pos,
                                           !.overload_count = 0,
                                           !.last_ok = Some(last_pos), !.fails = failed,
                                           !.min_position = Some(MIN_POSITION)]
                  ELSE /\ trace' = LogProbe(trace, n = 0, Probe(servo_id, cl.pos, r))
                       /\ cl' = [cl EXCEPT !.pc = "back", !.overload_count = count,
                                           !.last_ok = ok_pos, !.fails = failed,
                                           !.min_position = Some(MIN_POSITION)]
    /\ UNCHANGED <<robotVars, mv, ex, player, last, recorder>>

\* variant of auto_back that goes on to the upward loop from where the
\* downward loop ended
auto_back_no_return ==
    /\ cl.pc = "back"
    /\ cl' = IF cl.start_position < MAX_POSITION + 1
             THEN [cl EXCEPT !.pc = "up", !.pos = cl.start_position, !.overload_count = 0,
                             !.max_position = Some(cl.start_position), !.last_ok = None,
                             !.fails = 0]
             ELSE [cl EXCEPT !.pc = "home", !.overload_count = 0,
                             !.max_position = Some(MAX_POSITION), !.last_ok = None,
                             !.fails = 0]
    /\ UNCHANGED <<robotVars, mv, ex, player, last, trace, recorder>>

\* variant of auto_back in which the upward loop goes on with the counter of
\* the downward loop
auto_back_keeps_count ==
    /\ cl.pc = "back"
    /\ LET servo_id == DEFAULT_SERVOS[cl.j].id
       IN  trace' = Append(trace, Write(servo_id, ADDR_SCS_GOAL_POSITION,
                                        cl.start_position, Unused))
    /\ cl' = IF cl.start_position < MAX_POSITION + 1
             THEN [cl EXCEPT !.pc = "up", !.pos = cl.start_position,
                             !.max_position = Some(cl.start_position), !.last_ok = None,
                             !.fails = 0]
             ELSE [cl EXCEPT !.pc = "home", !.overload_count = 0,
                             !.max_position = Some(MAX_POSITION), !.last_ok = None,
                             !.fails = 0]
    /\ UNCHANGED <<robotVars, mv, ex, player, last, recorder>>

\* return to the start position, then enter the upward loop
auto_back ==
    /\ cl.pc = "back"
    /\ LET servo_id == DEFAULT_SERVOS[cl.j].id
       IN  trace' = Append(trace, Write(servo_id, ADDR_SCS_GOAL_POSITION,
                                        cl.start_position, Unused))
    /\ cl' = IF cl.start_position < MAX_POSITION + 1
             THEN [cl EXCEPT !.pc = "up", !.pos = cl.start_position, !.overload_count = 0,
                             !.max_position = Some(cl.start_position), !.last_ok = None,
                             !.fails = 0]
             ELSE [cl EXCEPT !.pc = "home", !.overload_count = 0,
                             !.max_position = Some(MAX_POSITION), !.last_ok = None,
                             !.fails = 0]
    /\ UNCHANGED <<robotVars, mv, ex, player, last, recorder>>

\* one iteration of: for pos in range(start_position, MAX_POSITION + 1, POSITION_STEP),
\* with the iterations past the ProbeWindow taken as in auto_down
auto_up ==
    /\ cl.pc = "up"
    /\ LET servo_id == DEFAULT_SERVOS[cl.j].id
           n == (cl.pos - cl.start_position) \div POSITION_STEP
       IN  \E r \in ProbeReplies(n) :
              LET count == CountAfter(MoveOk(r), cl.overload_count)
                  failed == IF MoveOk(r) THEN cl.fails ELSE cl.fails + 1
                  next == cl.pos + POSITION_STEP
                  last_pos == LastUp(cl.start_position)
                  ok_pos == IF MoveOk(r) THEN Some(cl.pos) ELSE cl.last_ok
              IN  IF count >= OVERLOAD_THRESHOLD
                  THEN /\ trace' = LogProbe(trace, n = 0, Probe(servo_id, cl.pos, r))
                       /\ cl' = [cl EXCEPT !.pc = "home", !.overload_count = count,
                                           !.last_ok = ok_pos, !.fails = failed,
                                           !.max_position = Some(UpperBoundary(cl.pos))]
                  ELSE IF next < MAX_POSITION + 1 /\ n + 1 < ProbeWindow
                  THEN /\ trace' = LogProbe(trace, n = 0, Probe(servo_id, cl.pos, r))
                       /\ cl' = [cl EXCEPT !.pos = next, !.overload_count = count,
                                           !.last_ok = ok_pos, !.fails = failed]
                  ELSE IF next < MAX_POSITION + 1
                  THEN /\ trace' = LogProbe(trace, n = 0, Probe(servo_id, last_pos, "ok"))
                       /\ cl' = [cl EXCEPT !.pc = "home", !.pos = last_pos,
                                           !.overload_count = 0,
                                           !.last_ok = Some(last_pos), !.fails = failed,
                                           !.max_position = Some(MAX_POSITION)]
                  ELSE /\ trace' = LogProbe(trace, n = 0, Probe(servo_id, cl.pos, r))
                       /\ cl' = [cl EXCEPT !.pc = "home", !.overload_count = count,
                                           !.last_ok = ok_pos, !.fails = failed,
                                           !.max_position = Some(MAX_POSITION)]
    /\ UNCHANGED <<robotVars, mv, ex, player, last, recorder>>

\* return to the start position; detect_joint_limits returns and
\* auto_calibrate stores the entry
auto_home ==
    /\ cl.pc = "home"
    /\ LET servo == DEFAULT_SERVOS[cl.j]
       IN  /\ trace' = Append(trace, Write(servo.id, ADDR_SCS_GOAL_POSITION,
                                           cl.start_position, Unused))
           /\ AutoNext(DictSet(calibration,
                               AutoEntry(servo, cl.min_position.v, cl.max_position.v)))
    /\ UNCHANGED <<is_connected, port, mv, ex, player, cal_runs, recorder>>

(***************************************************************************)
(* Manual calibration: manual_calibrate.                                   *)
(***************************************************************************)
\* the polling loop is followed for this many sweeps
MaxPolls == 2

\* what one get_servo_status call yields: the reply to the position read and,
\* when it is clean, the position (a device fault takes the same branch as
\* the transmission failure)
StatusOutcomes ==
    {[reply |-> "ok", position |-> Some(p)] : p \in PosSamples}
        \cup {[reply |-> "txfail", position |-> None]}

\* status['position'] when the port cannot transmit: the SDK call raises
Position(o) == IF BusUp THEN o.position ELSE None

RangeInit == [min_pos |-> None, max_pos |-> None, current_pos |-> None]

\* variant of UpdateRange in which min_pos follows the latest sample
UpdateRange_min_follows(range_data, position) ==
    IF ~position.some THEN range_data
    ELSE [current_pos |-> position,
          min_pos |-> position,
          max_pos |-> IF ~range_data.max_pos.some \/ position.v > range_data.max_pos.v
                      THEN position ELSE range_data.max_pos]

\* the update of one joint's range_data by a sample
UpdateRange(range_data, position) ==
    IF ~position.some THEN range_data
    ELSE [current_pos |-> position,
          min_pos |-> IF ~range_data.min_pos.some \/ position.v < range_data.min_pos.v
                      THEN position ELSE range_data.min_pos,
          max_pos |-> IF ~range_data.max_pos.some \/ position.v > range_data.max_pos.v
                      THEN position ELSE range_data.max_pos]

\* the reads of get_servo_status for outcome o, the position read holding
\* the position it returned
ReadsOf(servo_id, o) ==
    [StatusReads(servo_id, o.reply) EXCEPT ![1].val = o.position.v]

\* the reads of a sweep over the first n joints of DEFAULT_SERVOS
RECURSIVE SweepReads(_, _)
SweepReads(os, n) ==
    IF n = 0 THEN <<>>
    ELSE SweepReads(os, n - 1) \o ReadsOf(DEFAULT_SERVOS[n].id, os[n])

\* what the read of a home position can return: as in the monitoring loop,
\* or the centre position
HomeOutcomes == StatusOutcomes \cup {[reply |-> "ok", position |-> Some(CENTER)]}

call_manual_calibrate ==
    /\ Idle
    /\ ~has_calibration
    /\ cal_runs < MaxCalRuns
    /\ IF ~is_connected
       THEN /\ trace' = <<>>
            /\ last' = Returned("manual_calibrate", FALSE, NoArgs)
            /\ UNCHANGED <<cl, cal_runs, recorder>>
       ELSE /\ trace' = IF BusUp THEN TorqueOff ELSE <<>>
            /\ cl' = [ClIdle EXCEPT !.pc = "poll",
                                    !.ranges = [n \in 1..NumServos |-> RangeInit],
                                    !.samples = [n \in 1..NumServos |-> {}]]
            /\ last' = Running("manual_calibrate", NoArgs)
            /\ cal_runs' = cal_runs + 1
    /\ UNCHANGED <<calfile, calibration, servo_names, is_connected, port, mv, ex, player, recorder>>

\* one iteration of the monitoring loop with no ENTER pending; the trace keeps
\* the torque-disable writes and the reads of the latest sweep only
manual_poll ==
    /\ cl.pc = "poll"
    /\ cl.polls < MaxPolls
    /\ \E os \in [1..NumServos -> StatusOutcomes] :
          /\ trace' = IF BusUp THEN TorqueOff \o SweepReads(os, NumServos) ELSE trace
          /\ cl' = [cl EXCEPT !.polls = cl.polls + 1,
                              !.ranges = [n \in 1..NumServos |->
                                            UpdateRange(cl.ranges[n], Position(os[n]))],
                              !.samples = [n \in 1..NumServos |->
                                             IF Position(os[n]).some
                                             THEN cl.samples[n] \cup {Position(os[n]).v}
                                             ELSE cl.samples[n]]]
    /\ UNCHANGED <<robotVars, mv, ex, player, last, recorder>>

\* KeyboardInterrupt inside the try block of the monitoring loop
manual_interrupt ==
    /\ cl.pc = "poll"
    /\ cl' = ClIdle
    /\ last' = [last EXCEPT !.done = TRUE, !.ret = FALSE, !.cancelled = TRUE]
    /\ UNCHANGED <<robotVars, mv, ex, player, trace, recorder>>

\* ENTER ends the monitoring loop
manual_done ==
    /\ cl.pc = "poll"
    /\ cl' = [cl EXCEPT !.pc = "sethome"]
    /\ UNCHANGED <<robotVars, mv, ex, player, last, trace, recorder>>

\* the entry manual_calibrate stores for a joint
ManualEntry(servo, range_data, home_pos) ==
    [name |-> servo.name, id |-> servo.id, drive_mode |-> servo.drive_mode,
     homing_offset |-> home_pos - CENTER,
     range_min |-> range_data.min_pos.v, range_max |-> range_data.max_pos.v,
     range_size |-> range_data.max_pos.v - range_data.min_pos.v]

\* the calibration built from the first n joints of DEFAULT_SERVOS
RECURSIVE ManualBuild(_, _, _)
ManualBuild(ranges, homes, n) ==
    IF n = 0 THEN <<>>
    ELSE LET rest == ManualBuild(ranges, homes, n - 1)
         IN  IF ranges[n].min_pos.some /\ ranges[n].max_pos.some /\ homes[n].some
             THEN DictSet(rest, ManualEntry(DEFAULT_SERVOS[n], ranges[n], homes[n].v))
             ELSE rest

\* after the second ENTER: record the home positions, build and save
manual_home ==
    /\ cl.pc = "sethome"
    /\ \E os \in [1..NumServos -> HomeOutcomes] :
          LET homes == [n \in 1..NumServos |-> Position(os[n])]
              bad == {n \in 1..NumServos : ~homes[n].some}
              first == CHOOSE n \in bad : \A m \in bad : n <= m
          IN  IF bad # {}
              THEN /\ trace' = IF BusUp THEN trace \o SweepReads(os, first) ELSE trace
                   /\ last' = Returned("manual_calibrate", FALSE, NoArgs)
                   /\ UNCHANGED <<calfile, calibration, servo_names, recorder>>
              ELSE /\ trace' = trace \o SweepReads(os, NumServos)
                   /\ calibration' = ManualBuild(cl.ranges, homes, NumServos)
                   /\ servo_names' = Names(calibration')
                   /\ FinishCalibration("manual_calibrate", calibration')
    /\ cl' = ClIdle
    /\ UNCHANGED <<is_connected, port, mv, ex, player, cal_runs, recorder>>

(***************************************************************************)
(* get_current_positions.                                                  *)
(***************************************************************************)
\* the reads of get_servo_status for the first n joints of ids
RECURSIVE StatusSweep(_, _, _)
StatusSweep(ids, os, n) ==
    IF n = 0 THEN <<>>
    ELSE StatusSweep(ids, os, n - 1) \o ReadsOf(ids[n], os[n])

\* variant of PositionOrDefault that leaves an unreadable joint out
PositionOrDefault_skips(position) == IF position.some THEN <<position.v>> ELSE <<>>

\* status['position'] if status['position'] is not None else 0
PositionOrDefault(position) == IF position.some THEN <<position.v>> ELSE <<0>>

RECURSIVE CurrentPositions(_, _)
CurrentPositions(os, n) ==
    IF n = 0 THEN <<>>
    ELSE CurrentPositions(os, n - 1) \o PositionOrDefault(Position(os[n]))

\* the list returned is kept in last.args.positions
get_current_positions ==
    /\ Idle
    /\ \E os \in [1..Len(calibration) -> StatusOutcomes] :
          /\ trace' = IF BusUp THEN StatusSweep(WriteOrder, os, Len(WriteOrder)) ELSE <<>>
          /\ last' = Returned("get_current_positions", TRUE,
                              [positions |-> CurrentPositions(os, Len(WriteOrder))])
    /\ UNCHANGED <<robotVars, mv, ex, cl, player, recorder>>

(***************************************************************************)
(* WaypointRecorder: record_waypoint, one action per step of its loop.     *)
(* main constructs one recorder and calls record_waypoint once.            *)
(***************************************************************************)
MaxRecords == 3

call_record_waypoint ==
    /\ Idle
    /\ recorder.waypoint_file = None
    /\ IF ~is_connected \/ ~has_calibration
       THEN /\ trace' = <<>>
            /\ last' = Returned("record_waypoint", FALSE, NoArgs)
            /\ UNCHANGED recorder
       ELSE /\ trace' = IF BusUp THEN TorqueOff ELSE <<>>
            /\ recorder' = [recorder EXCEPT !.pc = "display", !.waypoint_file = Some(1),
                                            !.waypoint_count = 0]
            /\ last' = Running("record_waypoint", NoArgs)
    /\ UNCHANGED <<robotVars, mv, ex, cl, player>>

\* the range percentage of display_current_position divides by range_size
DisplayRaises(os, n) ==
    Position(os[n]).some /\ Get(calibration, WriteOrder[n]).range_size = 0

\* display_current_position at the top of the loop; the trace keeps the reads
\* of the latest display only.  A ZeroDivisionError leaves record_waypoint.
rec_display ==
    /\ recorder.pc = "display"
    /\ \E os \in [1..Len(calibration) -> StatusOutcomes] :
          LET raising == {n \in 1..Len(WriteOrder) : DisplayRaises(os, n)}
              first == CHOOSE n \in raising : \A m \in raising : n <= m
          IN  IF ~has_calibration
              THEN /\ trace' = <<>>
                   /\ recorder' = [recorder EXCEPT !.pc = "idle", !.current_positions = <<>>]
                   /\ last' = [last EXCEPT !.done = TRUE, !.ret = FALSE]
              ELSE IF raising # {}
              THEN /\ trace' = IF BusUp THEN StatusSweep(WriteOrder, os, first) ELSE <<>>
                   /\ recorder' = [recorder EXCEPT !.pc = "idle"]
                   /\ last' = [last EXCEPT !.done = TRUE, !.ret = FALSE]
              ELSE /\ trace' = IF BusUp THEN StatusSweep(WriteOrder, os, Len(WriteOrder))
                                        ELSE <<>>
                   /\ recorder' = [recorder EXCEPT
                                     !.pc = "input",
                                     !.current_positions = CurrentPositions(os, Len(WriteOrder))]
                   /\ UNCHANGED last
    /\ UNCHANGED <<robotVars, mv, ex, cl, player>>

\* variant of rec_record that numbers a waypoint by the length of the list
rec_record_numbers_by_length ==
    /\ recorder.pc = "input"
    /\ recorder.waypoint_count < MaxRecords
    /\ LET waypoint ==
             [id |-> Len(recorder.waypoints) + 1,
              positions |-> recorder.current_positions,
              joint_names |-> [n \in 1..Len(WriteOrder) |->
                                 NameOf(Get(calibration, WriteOrder[n]))]]
       IN  recorder' = [recorder EXCEPT !.pc = "display",
                                       !.waypoint_count = recorder.waypoint_count + 1,
                                       !.waypoints = Append(recorder.waypoints, waypoint),
                                       !.issued = recorder.issued \cup {waypoint.id}]
    /\ UNCHANGED <<robotVars, mv, ex, cl, player, trace, last>>

\* ENTER: record the displayed positions
rec_record ==
    /\ recorder.pc = "input"
    /\ recorder.waypoint_count < MaxRecords
    /\ LET waypoint_count == recorder.waypoint_count + 1
           waypoint ==
             [id |-> waypoint_count,
              positions |-> recorder.current_positions,
              joint_names |-> [n \in 1..Len(WriteOrder) |->
                                 NameOf(Get(calibration, WriteOrder[n]))]]
       IN  recorder' = [recorder EXCEPT !.pc = "display",
                                       !.waypoint_count = waypoint_count,
                                       !.waypoints = Append(recorder.waypoints, waypoint),
                                       !.issued = recorder.issued \cup {waypoint.id}]
    /\ UNCHANGED <<robotVars, mv, ex, cl, player, trace, last>>

\* 'delete': pop the last waypoint, if any
rec_delete ==
    /\ recorder.pc = "input"
    /\ recorder' = [recorder EXCEPT
                      !.pc = "display",
                      !.waypoints = IF recorder.waypoints # <<>>
                                    THEN SubSeq(recorder.waypoints, 1,
                                                Len(recorder.waypoints) - 1)
                                    ELSE recorder.waypoints]
    /\ UNCHANGED <<robotVars, mv, ex, cl, player, trace, last>>

\* 'show': show_waypoints prints the list; any other text prints a warning
rec_show ==
    /\ recorder.pc = "input"
    /\ recorder' = [recorder EXCEPT !.pc = "display"]
    /\ UNCHANGED <<robotVars, mv, ex, cl, player, trace, last>>

\* 'exit': leave the loop and return save_waypoints(), which writes nothing
\* for an empty list and returns False when the file cannot be written
rec_exit ==
    /\ recorder.pc = "input"
    /\ \E written \in BOOLEAN :
          /\ recorder' = [recorder EXCEPT
                            !.pc = "idle",
                            !.file = IF recorder.waypoints # <<>> /\ written
                                     THEN [exists |-> TRUE, waypoints |-> recorder.waypoints]
                                     ELSE recorder.file]
          /\ last' = [last EXCEPT !.done = TRUE,
                                  !.ret = (recorder.waypoints = <<>>) \/ written]
    /\ UNCHANGED <<robotVars, mv, ex, cl, player, trace>>

(***************************************************************************)
(* WaypointPlayer: load_waypoints, validate_waypoints, playback_waypoints. *)
(* A waypoint is a record with its id and its positions.                   *)
(***************************************************************************)
\* the positions recorded for joint n in waypoint k of the waypoint file
WpPos(k, n) == 600 + 500 * k + n

Waypoint(k, len) == [id |-> k, positions |-> [n \in 1..len |-> WpPos(k, n)]]

\* waypoint files found on disk: a missing file, a file without the
\* 'waypoints' key, a file with an empty list, a recording of NumWaypoints
\* waypoints, and a recording whose second waypoint is one position short
MissingFile == [exists |-> FALSE, has_key |-> FALSE, waypoints |-> <<>>]
NoKeyFile == [exists |-> TRUE, has_key |-> FALSE, waypoints |-> <<>>]
EmptyFile == [exists |-> TRUE, has_key |-> TRUE, waypoints |-> <<>>]
GoodFile ==
    [exists |-> TRUE, has_key |-> TRUE,
     waypoints |-> [k \in 1..NumWaypoints |-> Waypoint(k, NumServos)]]
ShortFile ==
    [exists |-> TRUE, has_key |-> TRUE,
     waypoints |-> <<Waypoint(1, NumServos), Waypoint(2, NumServos - 1),
                     Waypoint(3, NumServos)>>]
WaypointFiles == {MissingFile, NoKeyFile, EmptyFile, GoodFile, ShortFile}

load_waypoints ==
    /\ Idle
    /\ \E f \in WaypointFiles :
          IF ~f.exists \/ ~f.has_key
          THEN /\ last' = Returned("load_waypoints", FALSE, NoArgs)
               /\ UNCHANGED player
          ELSE /\ player' = [player EXCEPT !.waypoints = f.waypoints]
               /\ last' = Returned("load_waypoints", f.waypoints # <<>>, NoArgs)
    /\ trace' = <<>>
    /\ UNCHANGED <<robotVars, mv, ex, cl, recorder>>

\* variant of validate_waypoints without the check of the waypoint lengths
validate_waypoints_no_length == has_calibration /\ player.waypoints # <<>>

validate_waypoints ==
    /\ has_calibration
    /\ player.waypoints # <<>>
    /\ \A i \in 1..Len(player.waypoints) :
          Len(player.waypoints[i].positions) = Len(calibration)

\* truth value of an Optional[int] in a condition: None and 0 are false
Truthy(o) == o.some /\ o.v # 0

\* start_idx = start_waypoint - 1
StartIdx(args) == args.start_waypoint - 1

\* end_idx = (end_waypoint - 1) if end_waypoint else len(self.waypoints) - 1
EndIdx(args, waypoints) ==
    IF Truthy(args.end_waypoint) THEN args.end_waypoint.v - 1 ELSE Len(waypoints) - 1

\* the two index checks of playback_waypoints
IndicesValid(args, waypoints) ==
    LET start_idx == StartIdx(args)
        end_idx == EndIdx(args, waypoints)
    IN  /\ ~(start_idx < 0 \/ start_idx >= Len(waypoints))
        /\ ~(end_idx < 0 \/ end_idx >= Len(waypoints) \/ end_idx < start_idx)

\* variant of WaypointsToPlay that reverses the list before it slices
WaypointsToPlay_reverse_first(args, waypoints) ==
    Slice(IF args.reverse THEN Reversed(waypoints) ELSE waypoints,
          StartIdx(args), EndIdx(args, waypoints) + 1)

\* waypoints_to_play: the slice, reversed as a whole when reverse is set
WaypointsToPlay(args, waypoints) ==
    LET sliced == Slice(waypoints, StartIdx(args), EndIdx(args, waypoints) + 1)
    IN  IF args.reverse THEN Reversed(sliced) ELSE sliced

\* [wp['positions'] for wp in waypoints_to_play]
PositionsOf(wps) == [n \in 1..Len(wps) |-> wps[n].positions]

\* arguments of the calls of playback_waypoints: every start/end/reverse
\* combination around the list bounds for one loop, and every loop count up
\* to MaxLoops (0 is the infinite mode, -1 a negative count) for the whole
\* list and for a reversed part of it
DefaultArgs ==
    [speed |-> 200, acceleration |-> 100, wait_time |-> 2, loop_count |-> 1,
     start_waypoint |-> 1, end_waypoint |-> None, reverse |-> FALSE]

IndexValues == (-1)..(NumWaypoints + 1)

SliceRequests ==
    {[DefaultArgs EXCEPT !.start_waypoint = s, !.end_waypoint = e, !.reverse = r] :
        s \in IndexValues, e \in {None} \cup {Some(v) : v \in IndexValues},
        r \in BOOLEAN}

LoopRequests ==
    {[DefaultArgs EXCEPT !.loop_count = n] : n \in (-1)..MaxLoops}
        \cup {[speed |-> 150, acceleration |-> 80, wait_time |-> 3, loop_count |-> n,
               start_waypoint |-> 2, end_waypoint |-> Some(NumWaypoints - 1),
               reverse |-> TRUE] : n \in (-1)..MaxLoops}

PlaybackRequests == SliceRequests \cup LoopRequests

\* playback_waypoints up to the confirmation prompt; as in main(), it is
\* called on what load_waypoints left
call_playback_waypoints ==
    /\ Idle
    /\ last.op = "load_waypoints"
    /\ trace' = <<>>
    /\ \E args \in PlaybackRequests :
          IF validate_waypoints /\ IndicesValid(args, player.waypoints)
          THEN \E response \in Responses :
                  IF Confirmed(response)
                  THEN /\ player' = [player EXCEPT !.pb =
                                        [pc |-> "loop", args |-> args,
                                         waypoints_to_play |->
                                             WaypointsToPlay(args, player.waypoints),
                                         current_loop |-> 0, calls |-> <<>>]]
                       /\ last' = [Running("playback_waypoints", args)
                                      EXCEPT !.asked = TRUE, !.response = response]
                  ELSE /\ last' = [Returned("playback_waypoints", FALSE, args)
                                      EXCEPT !.asked = TRUE, !.response = response]
                       /\ UNCHANGED player
          ELSE /\ last' = Returned("playback_waypoints", FALSE, args)
               /\ UNCHANGED player
    /\ UNCHANGED <<robotVars, mv, ex, cl, recorder>>

\* variant of LoopTest that runs one iteration more
LoopTest_one_more(pb) == pb.args.loop_count = 0 \/ pb.current_loop <= pb.args.loop_count

\* variant of LoopTest that takes a negative count for the infinite mode
LoopTest_negative_is_infinite(pb) ==
    pb.args.loop_count <= 0 \/ pb.current_loop < pb.args.loop_count

\* variant of LoopTest without the infinite mode
LoopTest_finite_only(pb) == pb.current_loop < pb.args.loop_count

\* while loop_count == 0 or current_loop < loop_count
LoopTest(pb) == pb.args.loop_count = 0 \/ pb.current_loop < pb.args.loop_count

\* the head of the playback loop: another iteration calls execute_waypoints,
\* the end of the loop returns True.  The infinite mode is followed for
\* MaxLoops iterations.
pb_loop ==
    /\ player.pb.pc = "loop"
    /\ LET pb == player.pb
           call == [waypoints |-> PositionsOf(pb.waypoints_to_play),
                    speed |-> pb.args.speed, acceleration |-> pb.args.acceleration,
                    wait_time |-> pb.args.wait_time]
       IN  IF LoopTest(pb)
           THEN /\ pb.current_loop < MaxLoops
                /\ IF call.waypoints = <<>>
                   THEN /\ player' = [player EXCEPT !.pb = PbIdle]
                        /\ last' = [last EXCEPT !.done = TRUE, !.ret = FALSE]
                        /\ UNCHANGED ex
                   ELSE /\ player' = [player EXCEPT
                                         !.pb.pc = "exec",
                                         !.pb.current_loop = pb.current_loop + 1,
                                         !.pb.calls = Append(pb.calls, call)]
                        /\ ex' = ExecFrame("playback", call.waypoints, call.speed,
                                           call.acceleration, call.wait_time)
                        /\ UNCHANGED last
           ELSE /\ player' = [player EXCEPT !.pb = PbIdle]
                /\ last' = [last EXCEPT !.done = TRUE, !.ret = TRUE]
                /\ UNCHANGED ex
    /\ UNCHANGED <<robotVars, mv, cl, trace, recorder>>

\* after a successful iteration: time.sleep(2) unless it was the last one
pb_pause ==
    /\ player.pb.pc = "looped"
    /\ trace' = IF LoopTest(player.pb) THEN Append(trace, Dwell("pause", 2)) ELSE trace
    /\ player' = [player EXCEPT !.pb.pc = "loop"]
    /\ UNCHANGED <<robotVars, mv, ex, cl, last, recorder>>

\* variant of pb_interrupt that switches the torque of the joints off
pb_interrupt_torque_off ==
    /\ player.pb.pc # "idle"
    /\ player' = [player EXCEPT !.pb = PbIdle]
    /\ mv' = MvIdle
    /\ ex' = ExIdle
    /\ last' = [last EXCEPT !.done = TRUE, !.ret = FALSE, !.cancelled = TRUE]
    /\ trace' = trace \o TorqueOff
    /\ UNCHANGED <<robotVars, cl, recorder>>

\* KeyboardInterrupt inside the try block of playback_waypoints
pb_interrupt ==
    /\ player.pb.pc # "idle"
    /\ player' = [player EXCEPT !.pb = PbIdle]
    /\ mv' = MvIdle
    /\ ex' = ExIdle
    /\ last' = [last EXCEPT !.done = TRUE, !.ret = FALSE, !.cancelled = TRUE]
    /\ UNCHANGED <<robotVars, cl, trace, recorder>>

(***************************************************************************)
(* Calibration files a session can start from: none, one written by an     *)
(* earlier session, and one whose keys are not in ascending id order.      *)
(***************************************************************************)
FileItem(n, lo, hi, off) ==
    [name |-> ServoNameTable[n], id |-> n, drive_mode |-> 0,
     homing_offset |-> off, range_min |-> lo, range_max |-> hi]

SavedFile ==
    [exists |-> TRUE,
     entries |-> [n \in 1..NumServos |-> FileItem(n, 1000, 3000, 0)]]

InitFiles == {NoFile, SavedFile, [SavedFile EXCEPT !.entries = Reversed(SavedFile.entries)]}

\* Robot.__init__ followed by its load_calibration()
Init ==
    /\ calfile \in InitFiles
    /\ calibration = IF calfile.exists THEN LoadEntries(calfile.entries, <<>>) ELSE <<>>
    /\ servo_names = Names(calibration)
    /\ is_connected = FALSE
    /\ port = "none"
    /\ mv = MvIdle
    /\ ex = ExIdle
    /\ cl = ClIdle
    /\ player = PlayerInit
    /\ recorder = RecorderInit
    /\ trace = <<>>
    /\ last = Returned("init", calfile.exists, NoArgs)
    /\ cal_runs = 0

(***************************************************************************)
(* Spec: a motion session of a Robot (connect, load, move_to_position,     *)
(* execute_waypoints, disconnect) on the calibration file it finds.        *)
(***************************************************************************)
Next ==
    \/ load_calibration
    \/ connect
    \/ disconnect
    \/ get_current_positions
    \/ call_move_to_position
    \/ move_setup
    \/ move_write
    \/ call_execute_waypoints
    \/ exec_move
    \/ exec_wait
    \/ exec_read

Spec == Init /\ [][Next]_vars

(***************************************************************************)
(* SpecLoad: a motion session of a Robot that was constructed when there   *)
(* was no calibration file, on a file put in place since: a well-formed    *)
(* one, one whose last item lacks range_max, or one that is not JSON.      *)
(***************************************************************************)
TruncatedFile ==
    [SavedFile EXCEPT !.entries[NumServos] =
        [name |-> ServoNameTable[NumServos], id |-> NumServos, drive_mode |-> 0,
         homing_offset |-> 0, range_min |-> 1000]]

GarbledFile == [exists |-> TRUE, entries |-> <<>>, garbled |-> TRUE]

InitLoad ==
    /\ calfile \in InitFiles \cup {TruncatedFile, GarbledFile}
    /\ calibration = <<>>
    /\ servo_names = <<>>
    /\ is_connected = FALSE
    /\ port = "none"
    /\ mv = MvIdle
    /\ ex = ExIdle
    /\ cl = ClIdle
    /\ player = PlayerInit
    /\ recorder = RecorderInit
    /\ trace = <<>>
    /\ last = Returned("init", FALSE, NoArgs)
    /\ cal_runs = 0

SpecLoad == InitLoad /\ [][Next]_vars

(***************************************************************************)
(* SpecCal: a calibration session of a Robot.  As in main(), calibration   *)
(* is started only while has_calibration() is false.                       *)
(***************************************************************************)
NextCal ==
    \/ load_calibration
    \/ save_calibration
    \/ connect
    \/ disconnect
    \/ call_auto_calibrate
    \/ auto_detect
    \/ auto_down
    \/ auto_back
    \/ auto_up
    \/ auto_home
    \/ call_manual_calibrate
    \/ manual_poll
    \/ manual_interrupt
    \/ manual_done
    \/ manual_home

SpecCal == Init /\ [][NextCal]_vars

(***************************************************************************)
(* SpecAuto: a session with automatic calibration only.                    *)
(***************************************************************************)
NextAuto ==
    \/ load_calibration
    \/ connect
    \/ disconnect
    \/ call_auto_calibrate
    \/ auto_detect
    \/ auto_down
    \/ auto_back
    \/ auto_up
    \/ auto_home

SpecAuto == Init /\ [][NextAuto]_vars

\* SpecAuto in which a running auto_calibrate takes its next step: every
\* move_servo call returns, the program is sequential
SpecAutoFair ==
    /\ Init
    /\ [][NextAuto]_vars
    /\ WF_vars(auto_detect)
    /\ WF_vars(auto_down)
    /\ WF_vars(auto_back)
    /\ WF_vars(auto_up)
    /\ WF_vars(auto_home)

(***************************************************************************)
(* SpecCalMove: a calibration session followed by move_to_position calls,  *)
(* as in main().                                                           *)
(***************************************************************************)
NextCalMove ==
    \/ NextCal
    \/ call_move_to_position
    \/ move_setup
    \/ move_write

SpecCalMove == Init /\ [][NextCalMove]_vars

(***************************************************************************)
(* SpecRecorder: a recording session of a WaypointRecorder on a Robot, on  *)
(* the calibration file it finds; ZeroRangeFile is the file left by a      *)
(* manual calibration during which joint 1 was not moved.                  *)
(***************************************************************************)
ZeroRangeFile ==
    [SavedFile EXCEPT !.entries[1].range_min = SavedFile.entries[1].range_max]

InitRecorder ==
    /\ calfile \in InitFiles \cup {ZeroRangeFile}
    /\ calibration = IF calfile.exists THEN LoadEntries(calfile.entries, <<>>) ELSE <<>>
    /\ servo_names = Names(calibration)
    /\ is_connected = FALSE
    /\ port = "none"
    /\ mv = MvIdle
    /\ ex = ExIdle
    /\ cl = ClIdle
    /\ player = PlayerInit
    /\ recorder = RecorderInit
    /\ trace = <<>>
    /\ last = Returned("init", calfile.exists, NoArgs)
    /\ cal_runs = 0

NextRecorder ==
    \/ connect
    \/ disconnect
    \/ call_record_waypoint
    \/ rec_display
    \/ rec_record
    \/ rec_delete
    \/ rec_show
    \/ rec_exit

SpecRecorder == InitRecorder /\ [][NextRecorder]_vars

(***************************************************************************)
(* SpecPlayer: a playback session of a WaypointPlayer on a Robot.          *)
(***************************************************************************)
NextPlayer ==
    \/ connect
    \/ disconnect
    \/ load_waypoints
    \/ call_playback_waypoints
    \/ pb_loop
    \/ pb_pause
    \/ pb_interrupt
    \/ exec_move
    \/ exec_wait
    \/ exec_read
    \/ move_setup
    \/ move_write

SpecPlayer == Init /\ [][NextPlayer]_vars


(***************************************************************************)
(* SpecPlayerFair: SpecPlayer in which a call that can take its next step  *)
(* takes it (the program is sequential and single-threaded).               *)
(***************************************************************************)
SpecPlayerFair ==
    /\ Init
    /\ [][NextPlayer]_vars
    /\ WF_vars(pb_loop)
    /\ WF_vars(pb_pause)

(***************************************************************************)
(* SpecCancel: the two operations a KeyboardInterrupt can end with a        *)
(* return value, playback and manual calibration; the latter is followed   *)
(* as far as the prompt for the home position, past which an interrupt is  *)
(* no longer caught by manual_calibrate.                                   *)
(***************************************************************************)
NextCancel ==
    \/ NextPlayer
    \/ call_manual_calibrate
    \/ manual_poll
    \/ manual_interrupt
    \/ manual_done

SpecCancel == Init /\ [][NextCancel]_vars

(***************************************************************************)
(* Saving and loading: a Robot that holds some calibration in memory and   *)
(* has no calibration file yet saves it and loads it back.                 *)
(***************************************************************************)
\* the entries self.calibration can hold for the joints of DEFAULT_SERVOS
CalEntries ==
    {[name |-> ServoNameTable[m], id |-> id, drive_mode |-> dm, homing_offset |-> off,
      range_min |-> 1000, range_max |-> 3000, range_size |-> 2000] :
        m \in 1..NumServos, id \in 1..NumServos, dm \in {0, 1}, off \in {-48, 0}}

\* a dict keyed by id, in any insertion order, whose joint names are distinct
CalibrationSets ==
    {c \in UNION {[1..k -> CalEntries] : k \in 0..NumServos} :
        \A a, b \in 1..Len(c) : a # b => (c[a].id # c[b].id /\ c[a].name # c[b].name)}

InitRoundTrip ==
    /\ calfile = NoFile
    /\ calibration \in CalibrationSets
    /\ servo_names = Names(calibration)
    /\ is_connected = FALSE
    /\ port = "none"
    /\ mv = MvIdle
    /\ ex = ExIdle
    /\ cl = ClIdle
    /\ player = PlayerInit
    /\ recorder = RecorderInit
    /\ trace = <<>>
    /\ last = Returned("init", FALSE, NoArgs)
    /\ cal_runs = 0

NextRoundTrip ==
    \/ save_calibration
    \/ load_calibration

SpecRoundTrip == InitRoundTrip /\ [][NextRoundTrip]_vars

(***************************************************************************)
(* SpecConfirm: the entries of the two operations that ask for a           *)
(* confirmation, on a Robot that found a calibration file or none, or that *)
(* holds a calibration it could not save.  The runs that follow a 'y' are  *)
(* those of SpecPlayer and SpecAuto.                                       *)
(***************************************************************************)
NextConfirm ==
    \/ connect
    \/ disconnect
    \/ load_waypoints
    \/ call_playback_waypoints
    \/ call_auto_calibrate

SpecConfirm == (Init \/ InitRoundTrip) /\ [][NextConfirm]_vars

(***************************************************************************)
(* Properties.                                                             *)
(***************************************************************************)
IsSetupWrite(e) ==
    e.kind = "write"
        /\ e.addr \in {ADDR_SCS_GOAL_ACC, ADDR_SCS_GOAL_SPEED, ADDR_SCS_TORQUE_ENABLE}
IsPositionWrite(e) == e.kind = "write" /\ e.addr = ADDR_SCS_GOAL_POSITION
IsPause(e) == e.kind = "pause"
IsSleep(e) == e.kind = "sleep"

SetupWritesOf(t) == SelectSeq(t, IsSetupWrite)
PositionWritesOf(t) == SelectSeq(t, IsPositionWrite)

\* s is in ascending order of joint id
AscendingIds(s) == \A a, b \in 1..Len(s) : a < b => s[a].id <= s[b].id

\* the place of joint id among the calibrated ids in ascending order
Rank(id) == Cardinality({k \in KeySet(calibration) : k <= id})

InMove == last.op = "move_to_position"
InExec == last.op = "execute_waypoints"
InPlayback == last.op = "playback_waypoints"

\* the arguments pass the validation of move_to_position
Validated(positions) ==
    Len(calibration) > 0 /\ calfile.exists /\ Len(positions) = Len(calibration)

\* C1: in a validated move_to_position call the value written to the goal
\* position of a joint is max(range_min, min(range_max, target)): a target
\* above range_max is commanded as range_max, one below range_min as
\* range_min, one inside unchanged, and every commanded position lies in
\* [range_min, range_max] of its joint.
C1_CommandedWithinRange ==
    InMove =>
        \A n \in 1..Len(trace) :
            IsPositionWrite(trace[n]) =>
                LET cal == Get(calibration, trace[n].id)
                    target == last.args.positions[Rank(trace[n].id)]
                    sent == trace[n].val
                IN  /\ sent = Max(cal.range_min, Min(cal.range_max, target))
                    /\ target > cal.range_max => sent = cal.range_max
                    /\ target < cal.range_min => sent = cal.range_min
                    /\ (cal.range_min <= target /\ target <= cal.range_max) => sent = target
                    /\ cal.range_min <= sent /\ sent <= cal.range_max

\* C2: move_to_position without a loaded calibration, or with a number of
\* targets different from the number of calibrated joints, returns failure
\* and issues no register read or write; so does the move of a waypoint
\* inside execute_waypoints.
C2_InvalidMoveIssuesNothing ==
    /\ (InMove /\ ~Validated(last.args.positions)) =>
            last.done /\ ~last.ret /\ trace = <<>> /\ mv.pc = "idle"
    /\ InExec =>
            \A k \in 1..Len(last.args.waypoints) :
                ~Validated(last.args.waypoints[k]) =>
                    /\ \A n \in 1..Len(trace) : trace[n].wp # k
                    /\ (last.done \/ ex.i > k) => (last.done /\ ~last.ret)

C2_Witness ==
    /\ InMove /\ last.done
    /\ BusUp /\ is_connected
    /\ Len(calibration) > 0 /\ calfile.exists
    /\ Len(last.args.positions) = Len(calibration) + 1

\* the waypoints of the running or finished execute_waypoints call whose move
\* has a write that the bus did not acknowledge cleanly
FailedWaypoints ==
    {k \in 1..Len(last.args.waypoints) :
        \E n \in 1..Len(trace) :
            trace[n].wp = k /\ trace[n].kind = "write" /\ trace[n].reply # "ok"}

\* C3: in execute_waypoints, when move_to_position fails for waypoint k no
\* hardware command is issued for a later waypoint, the call returns
\* failure, and nothing is commanded after the failed move (no read-back, no
\* dwell, no command for an earlier waypoint).
C3_FailFast ==
    InExec =>
        /\ \A n, m \in 1..Len(trace) : n < m => trace[n].wp <= trace[m].wp
        /\ \A k \in FailedWaypoints :
              /\ \A n \in 1..Len(trace) : trace[n].wp <= k
              /\ \A n \in 1..Len(trace) :
                    trace[n].wp = k => trace[n].kind \in {"write", "warn"}
              /\ mv.pc = "idle" => (last.done /\ ~last.ret /\ ex.pc = "idle")
        /\ (last.done /\ last.ret) => FailedWaypoints = {}

C3_Witness ==
    /\ InExec /\ last.done /\ ~last.ret
    /\ Len(last.args.waypoints) = 3
    /\ FailedWaypoints = {2}
    /\ \E n \in 1..Len(trace) : trace[n].wp = 1 /\ trace[n].kind = "read"

\* C4: in move_to_position a failure on one joint (its setup or its position
\* write) does not stop the call from attempting the position write of every
\* remaining joint: a position write is issued for every calibrated joint.
C4_BestEffortWrites ==
    (InMove /\ last.done /\ BusUp /\ Validated(last.args.positions)) =>
        \A id \in KeySet(calibration) :
            \E n \in 1..Len(trace) : IsPositionWrite(trace[n]) /\ trace[n].id = id

\* every write of the trace was acknowledged cleanly, and every calibrated
\* joint got its three setup writes and its position write
AllWritesOk ==
    /\ \A n \in 1..Len(trace) : trace[n].kind = "write" => trace[n].reply = "ok"
    /\ \A id \in KeySet(calibration) :
          \A addr \in {ADDR_SCS_GOAL_ACC, ADDR_SCS_GOAL_SPEED, ADDR_SCS_TORQUE_ENABLE,
                       ADDR_SCS_GOAL_POSITION} :
              \E n \in 1..Len(trace) :
                  trace[n].kind = "write" /\ trace[n].id = id /\ trace[n].addr = addr

\* C5: a validated move_to_position call returns success if and only if the
\* setup writes and the position write of every calibrated joint succeeded;
\* one transmission failure or device fault on any of them makes it fail.
C5_SuccessIffAllWritesOk ==
    (InMove /\ last.done /\ Validated(last.args.positions)) =>
        (last.ret <=> AllWritesOk)

C5_Witness ==
    /\ InMove /\ last.done /\ ~last.ret
    /\ Len(PositionWritesOf(trace)) = Len(calibration)
    /\ \E n \in 1..Len(trace) :
          /\ IsPositionWrite(trace[n]) /\ trace[n].reply = "fault"
          /\ \A m \in 1..Len(trace) :
                (m # n /\ trace[m].kind = "write") => trace[m].reply = "ok"

\* C6: in move_to_position the joints are processed in ascending id order
\* whatever the insertion order of the calibration: the setup writes and the
\* position writes reach the bus in ascending id order, and targets[i] goes
\* to the joint with the i-th smallest id.
C6_AscendingOrder ==
    InMove =>
        /\ AscendingIds(SetupWritesOf(trace))
        /\ AscendingIds(PositionWritesOf(trace))
        /\ \A n \in 1..Len(trace) :
              IsPositionWrite(trace[n]) =>
                  trace[n].val = Clamp(Get(calibration, trace[n].id),
                                       last.args.positions[Rank(trace[n].id)])

\* the last waypoint number of a playback request (the list length when no
\* end is given)
EndOf(args) ==
    IF args.end_waypoint.some THEN args.end_waypoint.v ELSE Len(player.waypoints)

\* C7: for valid 1 <= start <= end <= n the sequence played is
\* list[start..end] (1-based, inclusive, end defaulting to n), reversed as a
\* whole when reverse is set; [A,B,C,D,E] with start 2, end 4, reverse gives
\* [D,C,B].
C7_SubsequenceLaw ==
    player.pb.pc # "idle" =>
        LET args == player.pb.args
            start == args.start_waypoint
            end == EndOf(args)
            played == player.pb.waypoints_to_play
        IN  (1 <= start /\ start <= end /\ end <= Len(player.waypoints)) =>
                /\ Len(played) = end - start + 1
                /\ \A i \in 1..Len(played) :
                      played[i] = IF args.reverse
                                  THEN player.waypoints[end - i + 1]
                                  ELSE player.waypoints[start + i - 1]
                /\ \A c \in 1..Len(player.pb.calls) :
                      player.pb.calls[c].waypoints = PositionsOf(played)

C7_Witness ==
    /\ player.pb.pc = "exec"
    /\ Len(player.waypoints) = NumWaypoints
    /\ player.pb.args.start_waypoint = 2
    /\ player.pb.args.end_waypoint = Some(4)
    /\ player.pb.args.reverse
    /\ [i \in 1..3 |-> player.pb.waypoints_to_play[i].id] = <<4, 3, 2>>

\* C8: playback_waypoints rejects, before any hardware command, every
\* request whose start or end waypoint lies outside 1..len(list) (0 and
\* negative values included) or whose end is smaller than its start.
C8_RejectsOutOfRange ==
    InPlayback =>
        LET args == last.args
            n == Len(player.waypoints)
            bad_start == args.start_waypoint < 1 \/ args.start_waypoint > n
            bad_end == /\ args.end_waypoint.some
                       /\ \/ args.end_waypoint.v < 1
                          \/ args.end_waypoint.v > n
                          \/ args.end_waypoint.v < args.start_waypoint
        IN  (bad_start \/ bad_end) =>
                /\ last.done /\ ~last.ret
                /\ trace = <<>>
                /\ player.pb.pc = "idle"

Count(t, Test(_)) == Len(SelectSeq(t, Test))

\* C9: with loop_count = n >= 1 and no failure or cancellation, playback
\* calls execute_waypoints exactly n times, each time with the same waypoint
\* sequence, speed, acceleration and wait time, pauses exactly n - 1 times
\* (after each iteration but the last), and then returns success.
C9_LoopLaw ==
    /\ (player.pb.pc # "idle" /\ player.pb.args.loop_count >= 1) =>
          LET pb == player.pb
              n == pb.args.loop_count
              expected == [waypoints |-> PositionsOf(pb.waypoints_to_play),
                           speed |-> pb.args.speed,
                           acceleration |-> pb.args.acceleration,
                           wait_time |-> pb.args.wait_time]
          IN  /\ Len(pb.calls) = pb.current_loop
              /\ pb.current_loop <= n
              /\ \A c \in 1..Len(pb.calls) : pb.calls[c] = expected
              /\ Count(trace, IsPause) =
                    IF pb.pc = "loop" /\ pb.current_loop > 0 /\ pb.current_loop < n
                    THEN pb.current_loop
                    ELSE Max(pb.current_loop - 1, 0)
              /\ (pb.pc = "loop" /\ pb.current_loop = n) => ENABLED pb_loop
    /\ (InPlayback /\ last.done /\ last.ret /\ last.args.loop_count >= 1) =>
          LET n == last.args.loop_count
              \* the trace ends with the read-back of the last waypoint played
              len == trace[Len(trace)].wp
          IN  /\ Count(trace, IsPause) = n - 1
              /\ Count(trace, IsSleep) = n * len
              /\ \A m \in 1..Len(trace) :
                    /\ IsSleep(trace[m]) => trace[m].val = last.args.wait_time
                    /\ trace[m].kind = "write" => trace[m].reply = "ok"
              /\ ~IsPause(trace[Len(trace)])

C9_Witness ==
    /\ InPlayback /\ last.done /\ last.ret
    /\ last.args.loop_count = 3
    /\ last.args.reverse
    /\ Count(trace, IsPause) = 2

\* C10: with loop_count = 0 playback never returns success; as long as no
\* iteration fails and no cancellation arrives, the end of every iteration is
\* eventually followed by the start of another identical iteration; the
\* playback ends only through cancellation or an iteration failure.
C10_InfiniteLoop ==
    /\ [](InPlayback /\ last.args.loop_count = 0 /\ last.done => ~last.ret)
    /\ \A c \in 1..(MaxLoops - 1) :
          (player.pb.pc = "looped" /\ player.pb.args.loop_count = 0
                /\ player.pb.current_loop = c)
            ~> \/ /\ player.pb.pc = "exec"
                  /\ player.pb.current_loop = c + 1
                  /\ Len(player.pb.calls) = c + 1
                  /\ player.pb.calls[c + 1] = player.pb.calls[1]
               \/ (InPlayback /\ last.done /\ ~last.ret)

C10_Witness ==
    /\ player.pb.pc = "exec"
    /\ player.pb.args.loop_count = 0
    /\ player.pb.current_loop = 2
    /\ Len(player.pb.calls) = 2
    /\ player.pb.calls[2] = player.pb.calls[1]
    /\ Count(trace, IsPause) = 1


\* a write of the trace that the bus did not acknowledge cleanly
IsFailedWrite(e) == e.kind = "write" /\ e.reply # "ok"

\* C11: when execute_waypoints fails in an iteration of a playback, the
\* playback returns failure at once: no further iteration is started and no
\* further hardware command is issued, for a finite loop count and for the
\* infinite mode alike.
C11_PlaybackFailFast ==
    InPlayback =>
        \A n \in 1..Len(trace) :
            IsFailedWrite(trace[n]) =>
                /\ \A m \in (n + 1)..Len(trace) :
                      /\ IsPositionWrite(trace[n])
                      /\ trace[m].kind = "warn" \/ IsPositionWrite(trace[m])
                      /\ trace[m].wp = trace[n].wp
                      /\ trace[m].id > trace[n].id
                /\ mv.pc = "idle" =>
                      /\ last.done /\ ~last.ret
                      /\ ex.pc = "idle" /\ player.pb.pc = "idle"

C11_Witness ==
    /\ InPlayback /\ last.done /\ ~last.ret
    /\ last.args.loop_count = 0
    /\ Count(trace, IsPause) = 1
    /\ IsFailedWrite(trace[Len(trace)])


\* a calibration is loaded and every loaded waypoint has one position per
\* calibrated joint
AllWaypointsFit ==
    /\ Len(calibration) > 0 /\ calfile.exists
    /\ \A i \in 1..Len(player.waypoints) :
          Len(player.waypoints[i].positions) = Len(calibration)

\* C12: playback issues a hardware command only if a calibration is loaded
\* and every waypoint of the loaded list, also one outside the selected
\* slice, has as many positions as there are calibrated joints; otherwise it
\* fails before any hardware command.
C12_ValidatesWholeList ==
    (InPlayback /\ ~AllWaypointsFit) =>
        /\ last.done /\ ~last.ret
        /\ trace = <<>>
        /\ player.pb.pc = "idle" /\ ex.pc = "idle" /\ mv.pc = "idle"

C12_Witness ==
    /\ InPlayback /\ last.done /\ ~last.ret
    /\ BusUp /\ is_connected
    /\ Len(calibration) > 0 /\ calfile.exists
    /\ Len(player.waypoints) = 3
    /\ Len(player.waypoints[2].positions) # Len(calibration)
    /\ last.args.start_waypoint = 1
    /\ last.args.end_waypoint = Some(1)
    /\ trace = <<>>


\* C13: every entry produced by automatic or manual calibration has
\* range_min <= range_max, for every readable start position the servo can
\* report (a 16-bit value, possibly above MAX_POSITION) and every pattern of
\* move successes and failures.
C13_RangeOrdered ==
    \A n \in 1..Len(calibration) : calibration[n].range_min <= calibration[n].range_max


\* the position of the latest move of the probe that just ended
LastProbed == trace[Len(trace)].val

\* C14: in the downward probe of automatic calibration (threshold 3,
\* increment 10), when the count of consecutive failed moves reaches 3 at
\* commanded position p the detected lower boundary is p + 10; the upward
\* probe yields p - 10.  Faults at 500, 490, 480 while descending from 520
\* give the lower boundary 490.
C14_BoundaryOneStepBack ==
    /\ (cl.pc = "back" /\ cl.overload_count >= 3) =>
          /\ trace[Len(trace)].kind = "probe" /\ ~MoveOk(trace[Len(trace)].reply)
          /\ cl.pos = LastProbed
          /\ cl.min_position = Some(LastProbed + 10)
    /\ (cl.pc = "home" /\ cl.overload_count >= 3) =>
          /\ trace[Len(trace)].kind = "probe" /\ ~MoveOk(trace[Len(trace)].reply)
          /\ cl.pos = LastProbed
          /\ cl.max_position = Some(LastProbed - 10)
    /\ (cl.pc = "back" /\ cl.start_position = 520 /\ cl.overload_count = 3
            /\ LastProbed = 480) =>
          cl.min_position = Some(490)

C14_Witness ==
    /\ cl.pc = "back"
    /\ cl.start_position = 520
    /\ cl.overload_count = 3
    /\ LastProbed = 480
    /\ cl.min_position = Some(490)


\* C15: when a probe of automatic calibration reaches the overload threshold,
\* the boundary stored for the joint is the last position whose move succeeded
\* before the run of consecutive failures began, so it is a position at which
\* a move succeeded during that probe.
C15_BoundaryIsLastSuccess ==
    /\ (cl.pc = "back" /\ cl.overload_count >= OVERLOAD_THRESHOLD) =>
          /\ cl.last_ok.some
          /\ cl.min_position = cl.last_ok
    /\ (cl.pc = "home" /\ cl.overload_count >= OVERLOAD_THRESHOLD) =>
          /\ cl.last_ok.some
          /\ cl.max_position = cl.last_ok

\* the head of detect_joint_limits failed: the bus was down, a setup write
\* was not acknowledged cleanly, or the start position could not be read
JointFailed(t) ==
    \/ t = <<>>
    \/ \E n \in 1..Len(t) : IsBus(t[n]) /\ t[n].reply \notin {"ok", Unused}

\* C16: in auto_calibrate a joint whose setup fails or whose position cannot
\* be read is left out of the calibration while every other joint is still
\* probed and stored; the call returns success if and only if at least one
\* joint was calibrated and the calibration was saved.
C16_PartialFailure ==
    [][/\ (cl.pc = "detect" /\ JointFailed(trace')) =>
             /\ calibration' = calibration
             /\ DEFAULT_SERVOS[cl.j].id \notin KeySet(calibration')
             /\ cl.j < NumServos =>
                   cl'.pc = "detect" /\ cl'.j = cl.j + 1 /\ ~last'.done
       /\ (cl.pc = "detect" /\ ~JointFailed(trace')) =>
             cl'.pc = "down" /\ cl'.j = cl.j /\ calibration' = calibration
       /\ cl.pc = "home" =>
             /\ Len(calibration') = Len(calibration) + 1
             /\ \A n \in 1..Len(calibration) : calibration'[n] = calibration[n]
             /\ calibration'[Len(calibration')].id = DEFAULT_SERVOS[cl.j].id
             /\ cl.j < NumServos =>
                   cl'.pc = "detect" /\ cl'.j = cl.j + 1 /\ ~last'.done
       /\ (cl.pc \in {"detect", "home"} /\ last'.done) =>
             /\ cl.j = NumServos
             /\ last'.ret <=> (Len(calibration') > 0 /\ calfile'.exists)
             /\ last'.ret => Len(calfile'.entries) = Len(calibration')
       /\ ((cl.pc = "home" \/ (cl.pc = "detect" /\ JointFailed(trace')))
              /\ cl.j = NumServos) => last'.done
      ]_vars

\* C16, as first stated: the call returns success if and only if at least
\* one joint was calibrated.
C16_SuccessIffAnyJoint ==
    [][(cl.pc \in {"detect", "home"} /\ last'.done) =>
            (last'.ret <=> Len(calibration') > 0)]_vars

C16_Witness ==
    /\ last.op = "auto_calibrate" /\ last.done /\ last.ret
    /\ Len(calibration) = 1
    /\ calibration[1].id = DEFAULT_SERVOS[NumServos].id
    /\ calfile.exists

\* the joints of DEFAULT_SERVOS whose position is read cleanly in the reads h
HasHome(h) ==
    {n \in 1..NumServos :
        \E k \in 1..Len(h) :
            /\ h[k].kind = "read" /\ h[k].id = DEFAULT_SERVOS[n].id
            /\ h[k].addr = ADDR_SCS_PRESENT_POSITION /\ h[k].reply = "ok"}

\* C17: in manual_calibrate a joint that lacks a min, a max or a home sample
\* is rejected individually: every other joint that has all three is stored
\* in the calibration, also when the home sample of another joint cannot be
\* read, and the call succeeds when a joint is stored and the save succeeds.
C17_RejectsIndividually ==
    [][cl.pc = "sethome" =>
          LET home == SubSeq(trace', Len(trace) + 1, Len(trace'))
              complete == {n \in HasHome(home) :
                              cl.ranges[n].min_pos.some /\ cl.ranges[n].max_pos.some}
          IN  /\ \A n \in complete : DEFAULT_SERVOS[n].id \in KeySet(calibration')
              /\ (complete # {} /\ calfile'.exists) => last'.ret
      ]_vars

\* the step that ends a calibration run which got as far as its joints
EndsCalibration ==
    /\ cl.pc \in {"detect", "home", "sethome"}
    /\ last'.op \in {"auto_calibrate", "manual_calibrate"}
    /\ ~last.done /\ last'.done

\* the number of joints the run that ends with this step has calibrated;
\* manual_calibrate stores none when a home position could not be read
JointsCalibrated ==
    IF /\ cl.pc = "sethome"
       /\ HasHome(SubSeq(trace', Len(trace) + 1, Len(trace'))) # 1..NumServos
    THEN 0
    ELSE Len(calibration')

\* C18: in both calibration strategies the calibration file is written only
\* when at least one joint was calibrated in that run; a run that calibrates
\* no joint returns failure and leaves the file untouched.
C18_SavedOnlyWithJoints ==
    [][last'.op \in {"auto_calibrate", "manual_calibrate"} =>
          /\ calfile' # calfile =>
                /\ EndsCalibration
                /\ JointsCalibrated > 0
                /\ calfile'.exists
                /\ Len(calfile'.entries) = JointsCalibrated
          /\ (EndsCalibration /\ JointsCalibrated = 0) =>
                ~last'.ret /\ calfile' = calfile
      ]_vars

C18_Witness ==
    /\ last.op = "manual_calibrate" /\ last.done /\ ~last.ret
    /\ HasHome(trace) = 1..NumServos
    /\ calibration = <<>>
    /\ calfile = [exists |-> TRUE, entries |-> <<>>]

\* C19: for every calibration with distinct joint names, save_calibration
\* followed by load_calibration yields a calibration with the same joint ids
\* and, per joint, the same id, name, drive_mode, homing_offset, range_min
\* and range_max.
C19_RoundTrip ==
    [][(/\ last.op = "save_calibration" /\ last.ret
        /\ last'.op = "load_calibration"
        /\ \A a, b \in 1..Len(calibration) :
              a # b => calibration[a].name # calibration[b].name) =>
          /\ last'.ret
          /\ KeySet(calibration') = KeySet(calibration)
          /\ Len(calibration') = Len(calibration)
          /\ \A id \in KeySet(calibration) :
                LET old == Get(calibration, id)
                    new == Get(calibration', id)
                IN  /\ new.id = old.id /\ new.id = id
                    /\ new.name = old.name
                    /\ new.drive_mode = old.drive_mode
                    /\ new.homing_offset = old.homing_offset
                    /\ new.range_min = old.range_min
                    /\ new.range_max = old.range_max
      ]_vars

C19_Witness ==
    /\ last.op = "load_calibration" /\ last.ret
    /\ calfile.exists
    /\ Len(calibration) = NumServos
    /\ calibration[1].id > calibration[2].id
    /\ calibration[1].name = ServoNameTable[1]
    /\ calibration[1].drive_mode = 1
    /\ calibration[2].homing_offset = -48

\* C20: after connect() has failed no register read or write is issued to
\* any joint by a later core operation: while is_connected is false a step
\* of the program adds no bus transaction to the trace.
C20_NoBusWhileDisconnected ==
    [][(~is_connected /\ trace' # trace) => BusOps(trace') = <<>>]_vars

\* a playback, or the monitoring loop of a manual calibration, is running
Cancellable ==
    /\ ~last.done
    /\ \/ last.op = "playback_waypoints" /\ player.pb.pc # "idle"
       \/ last.op = "manual_calibrate" /\ cl.pc = "poll"

\* C21: a user cancellation during playback or during the polling loop of
\* manual calibration makes the operation return failure with no further
\* command on the bus, and the calibration in memory and the calibration
\* file are as they were when the operation started: no step of the
\* operation up to and including the cancellation changes them.
C21_CancellationKeepsState ==
    [][/\ (last'.cancelled /\ ~last.cancelled) =>
             /\ Cancellable
             /\ last'.op = last.op /\ last'.done /\ ~last'.ret
             /\ trace' = trace
             /\ calibration' = calibration /\ calfile' = calfile
             /\ mv'.pc = "idle" /\ ex'.pc = "idle" /\ cl'.pc = "idle"
             /\ player'.pb.pc = "idle"
       /\ (Cancellable \/ Cancellable') =>
             calibration' = calibration /\ calfile' = calfile
       /\ (last.cancelled /\ last'.op = last.op /\ last'.cancelled) =>
             trace' = trace
      ]_vars

C21_Witness ==
    /\ last.op = "playback_waypoints" /\ last.cancelled
    /\ Len(calibration) = NumServos /\ calfile.exists
    /\ Len(PositionWritesOf(trace)) = 1
    /\ \A n \in 1..Len(trace) : trace[n].kind = "write" => trace[n].reply = "ok"

\* the target that the finished or running move_to_position call holds for
\* joint id
TargetOf(id) == last.args.positions[Rank(id)]

\* C22: in move_to_position a clamp warning is reported for a joint if and
\* only if the commanded value differs from its target, that is exactly
\* when the target lies outside [range_min, range_max] of the joint, and
\* the warning comes before the position write of the joint.
C22_WarningIffClamped ==
    InMove =>
        /\ \A n \in 1..Len(trace) :
              IsPositionWrite(trace[n]) =>
                  LET id == trace[n].id
                      cal == Get(calibration, id)
                      warned == \E m \in 1..(n - 1) :
                                    trace[m].kind = "warn" /\ trace[m].id = id
                  IN  /\ warned <=> trace[n].val # TargetOf(id)
                      /\ warned <=> (TargetOf(id) < cal.range_min
                                        \/ TargetOf(id) > cal.range_max)
                      /\ warned => trace[n - 1].kind = "warn" /\ trace[n - 1].id = id
        /\ \A m \in 1..Len(trace) :
              trace[m].kind = "warn" =>
                  /\ trace[m].addr = TargetOf(trace[m].id)
                  /\ trace[m].val # trace[m].addr
                  /\ \A n \in 1..(m - 1) :
                        ~(IsPositionWrite(trace[n]) /\ trace[n].id = trace[m].id)

\* the entries of the trace that belong to waypoint k of the call
OfWaypoint(k) == SelectSeq(trace, LAMBDA e : e.wp = k)

IsRead(e) == e.kind = "read"

\* the order of the trace of an execute_waypoints call
StepOrder ==
    InExec =>
        /\ \A n, m \in 1..Len(trace) : n < m => trace[n].wp <= trace[m].wp
        /\ \A n \in 1..Len(trace) : trace[n].wp \in 1..Len(last.args.waypoints)
        /\ \A k \in 1..Len(last.args.waypoints) :
              LET t == OfWaypoint(k)
                  reads == SelectSeq(t, IsRead)
              IN  /\ Count(t, IsSleep) <= 1
                  /\ \A a, b \in 1..Len(t) :
                        /\ (t[a].kind \in {"write", "warn"} /\ IsSleep(t[b])) => a < b
                        /\ (IsSleep(t[a]) /\ IsRead(t[b])) => a < b
                        /\ (t[a].kind \in {"write", "warn"} /\ IsRead(t[b])) => a < b
                  /\ \A a \in 1..Len(t) :
                        /\ IsSleep(t[a]) => t[a].val = last.args.wait_time
                        /\ IsPositionWrite(t[a]) =>
                              t[a].val = Clamp(Get(calibration, t[a].id),
                                               last.args.waypoints[k][Rank(t[a].id)])
                  /\ reads # <<>> => Count(t, IsSleep) = 1
                  /\ AscendingIds(reads)
                  /\ (\E n \in 1..Len(trace) : trace[n].wp > k) =>
                        KeySet(reads) = KeySet(calibration)
                  /\ (last.done /\ last.ret) => KeySet(reads) = KeySet(calibration)
        /\ (ex.pc \in {"wait", "read"} \/ ex.read_failed) => ~last.done

\* C23: execute_waypoints attempts the waypoints in list order; for each
\* waypoint the move comes first, then the hold for wait_time, then the
\* read-back of every joint in ascending id order; nothing is commanded for
\* waypoint i + 1 before the read-back of waypoint i is complete; a failed
\* read-back does not fail the sequence.
C23_WaypointStepOrder ==
    /\ []StepOrder
    /\ [][(InExec /\ ex.pc = "read") =>
              /\ last'.done => last'.ret
              /\ ~last'.done => ex'.pc \in {"read", "move"} /\ mv'.pc = "idle"]_vars

C23_Witness ==
    /\ InExec /\ ~last.done
    /\ ex.read_failed
    /\ ex.pc = "wait" /\ ex.i = 2
    /\ Keys(calibration) = Reversed(SortedSeq(KeySet(calibration)))
    /\ Len(calibration) = NumServos

\* the number of moves between position a and position b of a probe
Steps(a, b) == (IF a >= b THEN a - b ELSE b - a) \div POSITION_STEP

\* the number of consecutive failed moves that end the moves made so far
\* in the running probe: before is TRUE inside the loop, where cl.pos is the
\* position of the next move, and FALSE after it, where cl.pos is the
\* position of the last move
FailRun(before) ==
    LET made == Steps(cl.start_position, cl.pos) + (IF before THEN 0 ELSE 1)
        upto == IF cl.last_ok.some THEN Steps(cl.start_position, cl.last_ok.v) + 1 ELSE 0
    IN  made - upto

\* C24: in each probe of automatic calibration the overload counter equals
\* the number of consecutive failed moves immediately preceding the current
\* step, a successful move resetting it to zero; when no three consecutive
\* moves fail before the end of the position domain, the boundary is
\* MIN_POSITION = -4095 for the downward probe and MAX_POSITION = 4095 for
\* the upward probe, however many moves failed in all.
C24_CounterIsFailRun ==
    /\ cl.pc \in {"down", "up"} =>
          /\ cl.overload_count = FailRun(TRUE)
          /\ cl.overload_count < OVERLOAD_THRESHOLD
    /\ (cl.pc = "back" \/ (cl.pc = "home" /\ cl.start_position <= MAX_POSITION)) =>
          /\ cl.overload_count = FailRun(FALSE)
          /\ cl.overload_count <= OVERLOAD_THRESHOLD
    /\ (cl.pc = "back" /\ cl.overload_count < OVERLOAD_THRESHOLD) =>
          cl.min_position = Some(-4095)
    /\ (cl.pc = "home" /\ cl.overload_count < OVERLOAD_THRESHOLD) =>
          cl.max_position = Some(4095)
    /\ (cl.pc = "back" /\ cl.overload_count = OVERLOAD_THRESHOLD) =>
          cl.min_position # Some(-4095)
    /\ (cl.pc = "home" /\ cl.overload_count = OVERLOAD_THRESHOLD) =>
          cl.max_position # Some(4095)

C24_Witness ==
    /\ cl.pc = "back"
    /\ cl.fails = 4
    /\ cl.overload_count < OVERLOAD_THRESHOLD
    /\ cl.min_position = Some(MIN_POSITION)

\* what an entry of the trace of an automatic calibration is: a setup write,
\* a read of the status, the moves of a probe, or a move to the start position
TagOf(e) ==
    IF e.kind = "probe" THEN "probe"
    ELSE IF IsPositionWrite(e) THEN "start"
    ELSE IF e.kind = "write" THEN "setup"
    ELSE e.kind

Tags(t) == [n \in 1..Len(t) |-> TagOf(t[n])]

IsPrefix(a, b) == Len(a) <= Len(b) /\ a = SubSeq(b, 1, Len(a))

\* the commands of one joint, with both probes and with an empty upward probe
JointTags ==
    <<"setup", "setup", "setup", "read", "read", "read", "read",
      "probe", "start", "probe", "start">>
JointTagsNoUp ==
    <<"setup", "setup", "setup", "read", "read", "read", "read",
      "probe", "start", "start">>

\* C25: for each joint automatic calibration issues its commands in the
\* order setup, read of the start position, downward probe moves, move to
\* start, upward probe moves, move to start; a move to start separates the
\* two probes, the last position command of a joint is its start position,
\* and all commands of one joint precede every command of the next joint.
C25_JointCommandOrder ==
    last.op = "auto_calibrate" =>
        LET tags == Tags(trace)
            id == DEFAULT_SERVOS[cl.j].id
        IN  /\ IsPrefix(tags, JointTags) \/ IsPrefix(tags, JointTagsNoUp)
            /\ \A n \in 1..Len(trace) : trace[n].id = trace[1].id
            /\ cl.pc \in {"down", "back", "up", "home"} =>
                  /\ trace[1].id = id
                  /\ \A n \in 1..Len(trace) :
                        tags[n] = "start" => trace[n].val = cl.start_position
            /\ cl.pc = "down" => Len(tags) \in {7, 8}
            /\ cl.pc = "back" => tags = SubSeq(JointTags, 1, 8)
            /\ cl.pc = "up" => Len(tags) \in {9, 10} /\ IsPrefix(tags, JointTags)
            /\ cl.pc = "home" =>
                  tags \in {SubSeq(JointTags, 1, 10), SubSeq(JointTagsNoUp, 1, 9)}
            /\ (cl.pc \in {"detect", "idle"} /\ Len(tags) > 7) =>
                  /\ tags \in {JointTags, JointTagsNoUp}
                  /\ trace[Len(trace)].val = trace[9].val
                  /\ trace[1].id \in KeySet(calibration)
            /\ (cl.pc = "detect" /\ trace # <<>>) =>
                  cl.j > 1 /\ trace[1].id = DEFAULT_SERVOS[cl.j - 1].id

C25_Witness ==
    /\ last.op = "auto_calibrate" /\ cl.pc = "detect" /\ cl.j = 2
    /\ Tags(trace) = JointTags
    /\ trace[8].val < trace[9].val
    /\ trace[10].val > trace[9].val
    /\ trace[11].val = trace[9].val

SetMin(S) == CHOOSE x \in S : \A y \in S : x <= y
SetMax(S) == CHOOSE x \in S : \A y \in S : x >= y

\* min and max of every joint are the extremes of its samples so far
RangesFollowSamples ==
    cl.pc \in {"poll", "sethome"} =>
        \A n \in 1..NumServos :
            LET range_data == cl.ranges[n]
            IN  IF cl.samples[n] = {}
                THEN ~range_data.min_pos.some /\ ~range_data.max_pos.some
                ELSE /\ range_data.min_pos = Some(SetMin(cl.samples[n]))
                     /\ range_data.max_pos = Some(SetMax(cl.samples[n]))
                     /\ range_data.min_pos.v <= range_data.max_pos.v

\* C26: at every point of the polling loop of manual calibration, for every
\* joint that has yielded a readable sample, min is the smallest and max the
\* largest of its samples so far; min never increases, max never decreases,
\* min <= max, and an unreadable sample, or one that is no new extreme,
\* changes neither.
C26_RunningExtremes ==
    /\ []RangesFollowSamples
    /\ [][(cl.pc = "poll" /\ cl'.pc = "poll") =>
             \A n \in 1..NumServos :
                 LET old == cl.ranges[n]
                     new == cl'.ranges[n]
                 IN  /\ old.min_pos.some =>
                           new.min_pos.some /\ new.min_pos.v <= old.min_pos.v
                     /\ old.max_pos.some =>
                           new.max_pos.some /\ new.max_pos.v >= old.max_pos.v
                     /\ cl'.samples[n] = cl.samples[n] =>
                           new.min_pos = old.min_pos /\ new.max_pos = old.max_pos
      ]_vars

C26_Witness ==
    /\ cl.pc = "poll" /\ cl.polls = 2
    /\ cl.samples[1] = {520, 4110}
    /\ cl.ranges[1].current_pos = Some(4110)
    /\ cl.ranges[1].min_pos = Some(520)
    /\ cl.samples[2] = {}

\* floor(s / 2) by its definition: the integer q with 2q <= s < 2q + 2
FloorHalf(s) ==
    CHOOSE q \in MIN_POSITION..(MAX_POSITION + 2 * POSITION_STEP) :
        2 * q <= s /\ s < 2 * q + 2

\* C27: the homing_offset stored by automatic calibration is
\* floor((min + max) / 2) - 2048, also when min + max is negative or odd,
\* and the one stored by manual calibration is home - 2048; a home sample of
\* 2048 gives the homing_offset 0.
C27_HomingOffset ==
    [][/\ cl.pc = "home" =>
             LET new == Get(calibration', DEFAULT_SERVOS[cl.j].id)
             IN  /\ new.range_min = cl.min_position.v
                 /\ new.range_max = cl.max_position.v
                 /\ new.homing_offset = FloorHalf(new.range_min + new.range_max) - 2048
       /\ (cl.pc = "sethome" /\ last'.ret) =>
             LET home == SubSeq(trace', Len(trace) + 1, Len(trace'))
             IN  /\ calibration' # <<>>
                 /\ \A n \in 1..Len(calibration') :
                       \E k \in 1..Len(home) :
                           /\ home[k].kind = "read"
                           /\ home[k].id = calibration'[n].id
                           /\ home[k].addr = ADDR_SCS_PRESENT_POSITION
                           /\ calibration'[n].homing_offset = home[k].val - 2048
                           /\ home[k].val = 2048 => calibration'[n].homing_offset = 0
      ]_vars

C27_Witness ==
    /\ last.op = "auto_calibrate" /\ last.done /\ last.ret
    /\ calibration # <<>>
    /\ calibration[1].range_min = -4095
    /\ calibration[1].range_max = 530
    /\ calibration[1].homing_offset = -1783 - 2048

\* C28: after any sequence of load_calibration, auto_calibrate,
\* manual_calibrate and save_calibration every entry of the calibration in
\* memory has range_size = range_max - range_min, and no item of the
\* calibration file holds a range_size.
C28_RangeSizeDerived ==
    /\ \A n \in 1..Len(calibration) :
          calibration[n].range_size = calibration[n].range_max - calibration[n].range_min
    /\ \A n \in 1..Len(calfile.entries) :
          /\ "range_size" \notin DOMAIN calfile.entries[n]
          /\ {"id", "drive_mode", "homing_offset", "range_min", "range_max"}
                \subseteq DOMAIN calfile.entries[n]

C28_Witness ==
    /\ last.op = "load_calibration" /\ last.ret
    /\ cal_runs = 1
    /\ Len(calibration) = NumServos
    /\ calibration[1].range_size = 4095 - 510
    /\ calibration[2].range_size = -5

\* the position reads of the trace
IsPositionRead(e) == e.kind = "read" /\ e.addr = ADDR_SCS_PRESENT_POSITION

\* C29: get_current_positions returns a list with one value per calibrated
\* joint, in ascending order of joint id; a joint whose position read fails
\* contributes 0, and the remaining joints are still polled: the call does
\* not abort.
C29_OnePositionPerJoint ==
    last.op = "get_current_positions" =>
        LET positions == last.args.positions
            reads == SelectSeq(trace, IsPositionRead)
        IN  /\ last.done
            /\ Len(positions) = Len(calibration)
            /\ AscendingIds(trace)
            /\ BusUp => Keys(reads) = SortedSeq(KeySet(calibration))
            /\ ~BusUp => trace = <<>> /\ \A i \in 1..Len(positions) : positions[i] = 0
            /\ \A i \in 1..Len(reads) :
                  positions[i] = IF reads[i].reply = "ok" THEN reads[i].val ELSE 0

C29_Witness ==
    /\ last.op = "get_current_positions"
    /\ Keys(calibration) = <<2, 1>>
    /\ last.args.positions = <<0, 4110>>
    /\ Len(trace) = 8

\* the ids of a waypoint list
WaypointIds(w) == [n \in 1..Len(w) |-> w[n].id]

StrictlyIncreasing(s) == \A a, b \in 1..Len(s) : a < b => s[a] < s[b]

\* C30: during a recording session the ids of the recorded waypoints are
\* strictly increasing and at least 1; a step of the session leaves the list
\* unchanged, appends one waypoint whose id was never given before, or removes
\* the last waypoint and keeps the earlier ones; a delete removes the last
\* waypoint, and changes nothing on an empty list.
C30_IdsNeverReused ==
    /\ [](/\ StrictlyIncreasing(WaypointIds(recorder.waypoints))
          /\ \A n \in 1..Len(recorder.waypoints) : recorder.waypoints[n].id >= 1)
    /\ [][LET w == recorder.waypoints
              v == recorder.waypoints'
          IN  /\ \/ v = w
                 \/ /\ Len(v) = Len(w) + 1
                    /\ SubSeq(v, 1, Len(w)) = w
                    /\ v[Len(v)].id \notin recorder.issued
                    /\ \A n \in 1..Len(w) : v[Len(v)].id > w[n].id
                 \/ /\ w # <<>>
                    /\ v = SubSeq(w, 1, Len(w) - 1)
              /\ rec_delete => v = IF w = <<>> THEN w ELSE SubSeq(w, 1, Len(w) - 1)
              /\ rec_show => v = w]_vars

C30_Witness ==
    /\ recorder.pc = "display"
    /\ WaypointIds(recorder.waypoints) = <<1, 3>>
    /\ recorder.issued = {1, 2, 3}

SetupAddrs == <<ADDR_SCS_GOAL_ACC, ADDR_SCS_GOAL_SPEED, ADDR_SCS_TORQUE_ENABLE>>

\* C31: in a validated move_to_position call the setup writes go joint by
\* joint in the order of the calibration, three per joint; a setup write that
\* fails is the last bus transaction of the call, which returns failure with
\* no position write and no setup of a later joint; a position write is
\* issued only after all three setup writes of every joint succeeded.
C31_SetupBeforeAnyMove ==
    (InMove /\ Validated(last.args.positions)) =>
        LET setups == SetupWritesOf(trace)
            moves == PositionWritesOf(trace)
        IN  /\ \A n \in 1..Len(setups) :
                  /\ setups[n].id = Keys(calibration)[((n - 1) \div 3) + 1]
                  /\ setups[n].addr = SetupAddrs[((n - 1) % 3) + 1]
            /\ \A n \in 1..Len(trace) :
                  (IsSetupWrite(trace[n]) /\ trace[n].reply # "ok") =>
                      /\ n = Len(trace)
                      /\ moves = <<>>
                      /\ last.done /\ ~last.ret /\ mv.pc = "idle"
            /\ moves # <<>> =>
                  /\ Len(setups) = 3 * Len(calibration)
                  /\ \A n \in 1..Len(setups) : setups[n].reply = "ok"
                  /\ \A a, b \in 1..Len(trace) :
                        (IsSetupWrite(trace[a]) /\ IsPositionWrite(trace[b])) => a < b
            /\ (last.done /\ last.ret) => moves # <<>>

C31_Witness ==
    /\ InMove /\ last.done /\ ~last.ret
    /\ Validated(last.args.positions)
    /\ Keys(calibration) = <<2, 1>>
    /\ Len(trace) = 2
    /\ trace[2].id = 2 /\ trace[2].addr = ADDR_SCS_GOAL_SPEED /\ trace[2].reply # "ok"

\* C32: the overload counter of automatic calibration is zero at the first
\* step of the downward probe of every joint and at the first step of the
\* upward probe, whatever the downward probe met, and it never exceeds the
\* number of moves that failed in the running probe: a probe ends at the
\* threshold only on failures of its own moves.
C32_CounterPerProbe ==
    /\ (cl.pc \in {"down", "up"} /\ cl.pos = cl.start_position) =>
          cl.overload_count = 0
    /\ cl.pc \in {"down", "up", "back", "home"} =>
          cl.overload_count <= cl.fails
    /\ cl.pc = "detect" => cl.overload_count = 0 /\ cl.fails = 0

C32_Witness ==
    /\ cl.pc = "up"
    /\ cl.j = 2
    /\ cl.pos = cl.start_position
    /\ cl.min_position = Some(cl.start_position - POSITION_STEP)
    /\ cl.overload_count = 0
    /\ \E n \in 1..Len(trace) : trace[n].kind = "probe" /\ trace[n].reply = "fault"

AutoRunning == last.op = "auto_calibrate" /\ ~last.done

\* C33: automatic calibration terminates.  Within a probe every further move
\* is one POSITION_STEP beyond the previous one, downward or upward, and stays
\* inside [MIN_POSITION, MAX_POSITION]; a probe is left for good, the joints
\* are taken one after the other, and a running auto_calibrate returns.
C33_DetectionTerminates ==
    /\ [][/\ (cl.pc = "down" /\ cl'.pc = "down") =>
                /\ cl'.pos = cl.pos - POSITION_STEP
                /\ cl'.pos >= MIN_POSITION
                /\ cl'.j = cl.j /\ cl'.start_position = cl.start_position
          /\ (cl.pc = "up" /\ cl'.pc = "up") =>
                /\ cl'.pos = cl.pos + POSITION_STEP
                /\ cl'.pos <= MAX_POSITION
                /\ cl'.j = cl.j /\ cl'.start_position = cl.start_position
          /\ cl.pc = "down" => cl'.pc \in {"down", "back"}
          /\ cl.pc = "back" => cl'.pc \in {"up", "home"}
          /\ cl.pc = "up" => cl'.pc \in {"up", "home"}
          /\ (cl.pc \in {"detect", "home"} /\ cl'.pc # "idle") =>
                \/ cl'.pc = "detect" /\ cl'.j = cl.j + 1
                \/ cl.pc = "detect" /\ cl'.pc = "down" /\ cl'.j = cl.j
                      /\ cl'.pos = cl'.start_position
          /\ (cl.pc \in {"detect", "home"} /\ cl'.pc = "idle") =>
                cl.j = NumServos /\ last'.done]_vars
    /\ (AutoRunning ~> (last.op = "auto_calibrate" /\ last.done))

C33_Witness ==
    /\ last.op = "auto_calibrate" /\ last.done /\ last.ret
    /\ Len(calibration) = NumServos
    /\ calibration[1].range_min = MIN_POSITION
    /\ calibration[1].range_max = MAX_POSITION
    /\ calibration[2].range_min = 4100
    /\ calibration[2].range_max = MAX_POSITION

Declined ==
    /\ last.op \in {"playback_waypoints", "auto_calibrate"}
    /\ last.asked /\ last.response # "y"

\* C34: playback_waypoints and auto_calibrate go on only after the answer
\* 'y' to their confirmation prompt: with any other answer the call returns
\* failure at once, issues no bus transaction, starts no frame, and leaves
\* the calibration in memory, the id-to-name map and the calibration file as
\* they were.
C34_ConfirmationGate ==
    /\ [](Declined =>
            /\ last.done /\ ~last.ret
            /\ trace = <<>>
            /\ Idle)
    /\ [][(last' # last /\ Declined') =>
            UNCHANGED <<calibration, servo_names, calfile, player, cl, mv, ex>>]_vars

C34_Witness ==
    /\ last.op = "auto_calibrate" /\ last.asked /\ last.response = ""
    /\ is_connected /\ BusUp
    /\ Len(calibration) = NumServos
    /\ ~calfile.exists

\* C35: a playback confirmed with 'y' whose loop_count is negative runs no
\* iteration: it never calls execute_waypoints, issues no bus transaction and
\* no dwell, and returns True (unless a KeyboardInterrupt ends it first).
C35_NegativeLoopCount ==
    (InPlayback /\ last.asked /\ last.response = "y" /\ last.args.loop_count < 0) =>
        /\ trace = <<>>
        /\ player.pb.calls = <<>>
        /\ player.pb.current_loop = 0
        /\ ex.pc = "idle" /\ mv.pc = "idle"
        /\ (last.done /\ ~last.cancelled) => last.ret

C35_Witness ==
    /\ InPlayback /\ last.done /\ last.ret /\ ~last.cancelled
    /\ last.asked /\ last.response = "y"
    /\ last.args.loop_count = -1
    /\ is_connected /\ BusUp
    /\ Len(player.waypoints) >= 2

C37_SnapshotPerJoint ==
    /\ [](\A n \in 1..Len(recorder.waypoints) :
             Len(recorder.waypoints[n].positions) = Len(calibration))
    /\ [](recorder.pc = "input" =>
            LET shown == recorder.current_positions
                reads == SelectSeq(trace, IsPositionRead)
            IN  /\ Len(shown) = Len(calibration)
                /\ AscendingIds(trace)
                /\ BusUp => Keys(reads) = SortedSeq(KeySet(calibration))
                /\ ~BusUp => \A i \in 1..Len(shown) : shown[i] = 0
                /\ \A i \in 1..Len(reads) :
                      shown[i] = IF reads[i].reply = "ok" THEN reads[i].val ELSE 0)
    /\ [][/\ (recorder.pc = "input"
                /\ Len(recorder'.waypoints) = Len(recorder.waypoints) + 1) =>
                recorder'.waypoints[Len(recorder'.waypoints)].positions
                    = recorder.current_positions
          /\ (recorder.pc = "display" /\ recorder'.pc # "input") =>
                /\ recorder'.pc = "idle"
                /\ \E n \in 1..Len(trace') :
                      /\ IsPositionRead(trace'[n]) /\ trace'[n].reply = "ok"
                      /\ Get(calibration, trace'[n].id).range_size = 0]_vars

C37_Witness ==
    /\ recorder.pc = "display"
    /\ Keys(calibration) = <<2, 1>>
    /\ Len(recorder.waypoints) = 2
    /\ recorder.waypoints[1].positions = <<0, 4110>>
    /\ recorder.waypoints[2].positions = <<0, 0>>

\* C38: execute_waypoints called with an empty list of waypoints returns
\* False at once: no bus transaction, no dwell, no move_to_position call.
C38_EmptyListFails ==
    (InExec /\ last.args.waypoints = <<>>) =>
        /\ last.done /\ ~last.ret
        /\ trace = <<>>
        /\ ex.pc = "idle" /\ mv.pc = "idle"

C38_Witness ==
    /\ InExec /\ last.args.waypoints = <<>>
    /\ last.done
    /\ is_connected /\ BusUp
    /\ Len(calibration) = NumServos /\ calfile.exists

=========================================================================
